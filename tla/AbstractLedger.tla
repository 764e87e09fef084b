--------------------------- MODULE AbstractLedger ---------------------------
(***************************************************************************)
(* What one registered scope of the validation proof ledger promises to    *)
(* its callers, with no files, no lock and no crashes: a scope is          *)
(* registered once, an attempt begins at most once and ends at most once,  *)
(* the number of attempts is bounded, whatever has been acknowledged stays *)
(* true, and a snapshot is exactly the journal at one instant.             *)
(* ValidationLedger is shown to implement this module.                     *)
(***************************************************************************)
EXTENDS Integers, FiniteSets

CONSTANTS
  AttemptIds,        \* durable attempt identifiers
  AttemptRecords,    \* what an attempt record can hold
  TerminalRecords,   \* what a terminal record can hold
  Authorities,       \* externally pinned scope authorities
  MaxScopeAttempts,  \* bound on the attempts of the scope
  None               \* "nothing there"

VARIABLES
  authority,  \* the authority the scope is registered under, or None
  begun,      \* begun[a]: the record of attempt a, or None
  ended,      \* ended[a]: the terminal record of attempt a, or None
  acked,      \* what callers have been told: attempt and terminal contents
  pin         \* the last snapshot handed to a caller, or None

vars == <<authority, begun, ended, acked, pin>>

Empty == [a \in AttemptIds |-> None]

Init ==
  /\ authority = None
  /\ begun = Empty
  /\ ended = Empty
  /\ acked = [attempts |-> {}, terminals |-> {}]
  /\ pin = None

Register(g) ==
  /\ authority = None
  /\ authority' = g
  /\ UNCHANGED <<begun, ended, acked, pin>>

Begin(a, r) ==
  /\ authority # None
  /\ begun[a] = None
  /\ Cardinality({b \in AttemptIds : begun[b] # None}) < MaxScopeAttempts
  /\ begun' = [begun EXCEPT ![a] = r]
  /\ UNCHANGED <<authority, ended, acked, pin>>

End(a, r) ==
  /\ begun[a] # None
  /\ ended[a] = None
  /\ ended' = [ended EXCEPT ![a] = r]
  /\ UNCHANGED <<authority, begun, acked, pin>>

AcknowledgeAttempt(a) ==
  /\ begun[a] # None
  /\ acked' = [acked EXCEPT !.attempts = @ \cup {<<a, begun[a].content>>}]
  /\ UNCHANGED <<authority, begun, ended, pin>>

AcknowledgeTerminal(a) ==
  /\ ended[a] # None
  /\ acked' = [acked EXCEPT !.terminals = @ \cup {<<a, ended[a].content>>}]
  /\ UNCHANGED <<authority, begun, ended, pin>>

Snapshot ==
  /\ authority # None
  /\ pin' = [authority |-> authority, attempts |-> begun, terminals |-> ended]
  /\ UNCHANGED <<authority, begun, ended, acked>>

Next ==
  \/ \E g \in Authorities : Register(g)
  \/ \E a \in AttemptIds, r \in AttemptRecords : Begin(a, r)
  \/ \E a \in AttemptIds, r \in TerminalRecords : End(a, r)
  \/ \E a \in AttemptIds : AcknowledgeAttempt(a) \/ AcknowledgeTerminal(a)
  \/ Snapshot

Spec == Init /\ [][Next]_vars
=============================================================================
