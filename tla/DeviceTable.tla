---------------------------- MODULE DeviceTable ----------------------------
(***************************************************************************)
(* The table a ServiceBrowser builds of the receivers it hears of          *)
(* (crates/airplay-discovery/src/browser.rs, parser.rs).  A receiver may   *)
(* advertise an AirPlay and a RAOP service; each is resolved, again when   *)
(* its record changes, and removed on its own, and the two come on         *)
(* separate channels, so in any order.                                     *)
(*                                                                         *)
(* A record is what the properties tell apart of a TXT record: whether the *)
(* features it gives make an AirPlay 2 receiver, and the address families  *)
(* it was resolved to.  The other fields follow one of these two: they are *)
(* taken from the AirPlay record, or joined from both.                     *)
(***************************************************************************)
EXTENDS Naturals

CONSTANTS
  Device,  \* receivers
  Records  \* the records that may be resolved

ASSUME DeviceTableAssumption ==
  Records \subseteq [id : Device, raop : BOOLEAN, valid : BOOLEAN,
                     airplay2 : BOOLEAN, addresses : SUBSET {"v4", "v6"}]

\* A receiver does not change its features while it is listened to.
ASSUME FeaturesAreFixed ==
  \A r, s \in Records : r.id = s.id /\ r.raop = s.raop => r.airplay2 = s.airplay2

VARIABLES
  table,  \* ServiceBrowser::devices
  heard   \* history: the records resolved for a receiver since it was last added

Absent == [airplay2 |-> FALSE, raop |-> FALSE, addresses |-> {}]

\* The receiver has an entry: an entry has an address.
Known(d) == table[d] # Absent

\* A record without address, without an identity or with a field that does not
\* parse is skipped.
Parses(rec) == rec.addresses # {} /\ rec.valid

\* Only a RAOP record fills the RAOP fields.
Parsed(rec) ==
  [airplay2 |-> rec.airplay2, raop |-> rec.raop, addresses |-> rec.addresses]

\* Mutant: the features come from the RAOP record.
MergedBadly(airplay, raop) ==
  [airplay2 |-> raop.airplay2, raop |-> raop.raop,
   addresses |-> airplay.addresses \cup raop.addresses]

Merged(airplay, raop) ==
  [airplay2 |-> airplay.airplay2, raop |-> raop.raop,
   addresses |-> airplay.addresses \cup raop.addresses]

\* A second record of a known receiver: the new one is merged on the side of its kind.
Updated(rec) ==
  IF rec.raop
  THEN Merged(table[rec.id], Parsed(rec))
  ELSE Merged(Parsed(rec), table[rec.id])

Resolve(rec) ==
  IF Parses(rec)
  THEN /\ table' = [table EXCEPT ![rec.id] =
                      IF Known(rec.id) THEN Updated(rec) ELSE Parsed(rec)]
       /\ heard' = [heard EXCEPT ![rec.id] = @ \cup {rec}]
  ELSE UNCHANGED <<table, heard>>

\* The removal of a RAOP service names the receiver, which then goes altogether;
\* that of an AirPlay service does not, and is ignored.
RemoveRecord(d, raop) ==
  IF raop
  THEN /\ table' = [table EXCEPT ![d] = Absent]
       /\ heard' = [heard EXCEPT ![d] = {}]
  ELSE UNCHANGED <<table, heard>>

-----------------------------------------------------------------------------
(* What an entry should say, whatever the order of the records.              *)

AirPlayHeard(d) == {rec \in heard[d] : ~rec.raop}
RaopHeard(d) == {rec \in heard[d] : rec.raop}

\* The features of the AirPlay record, or of the RAOP record if there is no other.
Deciding(d) == IF AirPlayHeard(d) # {} THEN AirPlayHeard(d) ELSE RaopHeard(d)

\* Every entry is the join of the records heard, in whatever order they came:
\* AirPlay features win over RAOP features, RAOP fields are kept, and no address
\* is lost (merge_device_info, parser.rs:393; handle_service_event, browser.rs:105).
EntriesAreJoins ==
  \A d \in Device :
    /\ Known(d) <=> heard[d] # {}
    /\ Known(d) =>
         table[d] = [airplay2  |-> \E rec \in Deciding(d) : rec.airplay2,
                     raop      |-> RaopHeard(d) # {},
                     addresses |-> UNION {rec.addresses : rec \in heard[d]}]

TableType ==
  /\ table \in [Device -> [airplay2 : BOOLEAN, raop : BOOLEAN,
                            addresses : SUBSET {"v4", "v6"}]]
  /\ heard \in [Device -> SUBSET Records]
=============================================================================
