-------------------------- MODULE AbstractEvidence --------------------------
(***************************************************************************)
(* What the evidence store of belief/pdx promises its callers: one content *)
(* for an engagement version, one receipt for the bytes of an attestation, *)
(* both for good, and no two accepted receipts that disagree on a capture. *)
(* Only a loss of power may take back a registration or a receipt.         *)
(***************************************************************************)
CONSTANTS Raws, Versions, Contents, Captures, Version, Matches, PowerLoss, None

VARIABLES
  registry,  \* registry[v]: the content registered for engagement version v
  journal    \* journal[r]: the receipt for the attestation with bytes r

Agree(x, y) == x[1] = y[1] => x[2] = y[2]

Init ==
  /\ registry = [v \in Versions |-> None]
  /\ journal = [r \in Raws |-> None]

Register(v, c) ==
  /\ registry[v] = None
  /\ registry' = [registry EXCEPT ![v] = c]
  /\ UNCHANGED journal

\* refused, rejected or quarantined: the receipt claims nothing
RecordNothing(r) ==
  /\ journal[r] = None
  /\ \E receipt \in [status : {"REJECT", "QUARANTINE"}, refs : {{}}] :
       journal' = [journal EXCEPT ![r] = receipt]
  /\ UNCHANGED registry

Accept(r) ==
  /\ journal[r] = None
  /\ registry[Version[r]] \in Matches[r]
  /\ \A q \in Raws :
       journal[q] # None => \A x \in Captures[r], y \in journal[q].refs : Agree(x, y)
  /\ journal' = [journal EXCEPT ![r] = [status |-> "ACCEPT", refs |-> Captures[r]]]
  /\ UNCHANGED registry

Forget(gone) ==
  /\ PowerLoss
  /\ registry' = [v \in Versions |-> IF v \in gone THEN None ELSE registry[v]]
  /\ journal' = [r \in Raws |-> IF r \in gone THEN None ELSE journal[r]]

Next ==
  \/ \E v \in Versions, c \in Contents : Register(v, c)
  \/ \E r \in Raws : RecordNothing(r) \/ Accept(r)
  \/ \E gone \in SUBSET (Raws \cup Versions) : Forget(gone)

Spec == Init /\ [][Next]_<<registry, journal>>
=============================================================================
