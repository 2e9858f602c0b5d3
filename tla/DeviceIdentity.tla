--------------------------- MODULE DeviceIdentity ---------------------------
(***************************************************************************)
(* What identifies a machine, and how a reported identity is matched with  *)
(* the devices already stored (fleet/identity.py, and the candidate query  *)
(* of fleet/repository.py).  An identity here is the normalised one: a     *)
(* serial number or none, and a set of MAC addresses.                      *)
(***************************************************************************)

CONSTANTS
    Serials,    \* hardware serial numbers machines can report
    Macs,       \* normalised MAC addresses machines can report
    NoSerial    \* the machine reports no serial number (None)

ASSUME NoSerialAssumption == NoSerial \notin Serials

Identity == [serial : Serials \cup {NoSerial}, macs : SUBSET Macs]

\* A machine that reports nothing that identifies it.
NoIdentity == [serial |-> NoSerial, macs |-> {}]

\* Both sides have a serial and it is the same, or the MAC sets intersect.
Matches(a, b) ==
    \/ a.serial # NoSerial /\ a.serial = b.serial
    \/ a.macs \cap b.macs # {}

\* Fault: MAC addresses are searched only for a machine without a serial.
CandidatesSerialFirst(ident, rows, ids) ==
    {d \in ids : IF ident.serial # NoSerial
                 THEN rows[d].serial = ident.serial
                 ELSE \E m \in ident.macs : m \in rows[d].macs}

\* The rows the SQL query returns for an identity: OR of one equality on the
\* serial, if there is one, and one containment test per MAC; none without
\* any condition.  ids are the rows that exist.
Candidates(ident, rows, ids) ==
    {d \in ids : \/ ident.serial # NoSerial /\ rows[d].serial = ident.serial
                 \/ \E m \in ident.macs : m \in rows[d].macs}

Hits(ident, rows, ids) ==
    {d \in Candidates(ident, rows, ids) : Matches(ident, rows[d])}

\* The three outcomes that are not "no match".
CrossOrganization(hits, rows, org) == \E d \in hits : rows[d].org # org

Ambiguous(hits) == \E d, e \in hits : d # e

\* Fault: a match in another organization is taken over.
AcceptableAnyOrganization(hits, rows, org) == ~Ambiguous(hits)

\* A request that gets past both conflict checks.
Acceptable(hits, rows, org) ==
    /\ ~CrossOrganization(hits, rows, org)
    /\ ~Ambiguous(hits)
=============================================================================
