------------------------------- MODULE Recall -------------------------------
(***************************************************************************)
(* What semantic recall promises, without vectors, generations, an outbox   *)
(* or indexers: it returns a memory with the text it has or not at all; a   *)
(* memory it returns stays until it changes, unless work on it is owed; and *)
(* work is settled by returning the memory or by giving up on its text.     *)
(*                                                                         *)
(* MemoryIndex implements this specification (MemoryRefines).               *)
(***************************************************************************)
EXTENDS Naturals

CONSTANTS Memory, Text,
          Serving  \* a generation of vectors serves

VARIABLES
  current,  \* the text of each active memory, 0 of the others
  shown,    \* the text recall returns for it, 0 for none
  owed,     \* active memories whose text is to be indexed
  failed    \* active memories whose text was given up

rvars == <<current, shown, owed, failed>>

RInit ==
  /\ current = [m \in Memory |-> 0]
  /\ shown = [m \in Memory |-> 0]
  /\ owed = {}
  /\ failed = {}

\* m gets another text, and work with it.
Change(m, t) ==
  /\ t # current[m]
  /\ current' = [current EXCEPT ![m] = t]
  /\ shown' = [shown EXCEPT ![m] = 0]
  /\ owed' = owed \cup {m}
  /\ failed' = failed \ {m}

\* m is retired or deleted.
Withdraw(m) ==
  /\ current[m] # 0
  /\ current' = [current EXCEPT ![m] = 0]
  /\ shown' = [shown EXCEPT ![m] = 0]
  /\ owed' = owed \ {m}
  /\ failed' = failed \ {m}

\* Recall returns the memories of S from now on.
Index(S) ==
  /\ Serving
  /\ \A m \in S : current[m] # 0
  /\ shown' = [m \in Memory |-> IF m \in S THEN current[m] ELSE shown[m]]
  /\ UNCHANGED <<current, owed, failed>>

\* Recall does not find the memories of S for now: older work on them ends first.
Hide(S) ==
  /\ S \subseteq owed
  /\ shown' = [m \in Memory |-> IF m \in S THEN 0 ELSE shown[m]]
  /\ UNCHANGED <<current, owed, failed>>

\* The work on S is over, for those of F in failure.
Settle(S, F) ==
  /\ S \subseteq owed
  /\ Serving => \A m \in S \ F : shown[m] = current[m]
  /\ owed' = owed \ S
  /\ failed' = failed \cup F
  /\ UNCHANGED <<current, shown>>

RNext ==
  \/ \E m \in Memory : (\E t \in Text : Change(m, t)) \/ Withdraw(m)
  \/ \E S \in SUBSET Memory : Index(S) \/ Hide(S)
  \/ \E S \in SUBSET Memory : \E F \in SUBSET S : Settle(S, F)

RSpec == RInit /\ [][RNext]_rvars

-----------------------------------------------------------------------------
\* Recall returns no text but the current one, and every active memory is
\* returned, owed or given up.
NoneForgotten ==
  \A m \in Memory :
    /\ shown[m] \in {0, current[m]}
    /\ Serving /\ current[m] # 0 => shown[m] = current[m] \/ m \in owed \cup failed
=============================================================================
