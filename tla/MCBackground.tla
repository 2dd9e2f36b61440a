---------------------------- MODULE MCBackground ----------------------------
(***************************************************************************)
(* Services of one process that share no state with each other here: a       *)
(* behaviour is of one side.                                                *)
(*                                                                         *)
(* memory: MemoryIndex with one indexer over two memories whose texts never  *)
(* come back, whose passes are cut short only finitely often.                *)
(*                                                                         *)
(* calls: ProviderChain with the calls of a brief stage, live and fast, an   *)
(* ordinary background chain bg and a summary, two of them at a time.        *)
(*                                                                         *)
(* writes: Publisher with three writers, of which wb always fails, a queue   *)
(* of two and batches of two.                                               *)
(***************************************************************************)
EXTENDS MemoryRefines, ProviderChain, Publisher, TLC

CONSTANTS
  i1, m1, m2,
  live, fast, bg, summ, acct, shared,
  wa, wb, wc

VARIABLE side

FreshTexts == {"edit", "retire", "delete", "fail", "stop"}
Pairs == {{live, fast}, {live, bg}, {bg, summ}, {}}
MCAccountOf == <<acct, shared>>
MCFamilyOf == <<"big", "big">>
MCRouteLimit == <<2, 1>>
MCFailures ==
  {[kind |-> "timeout", recovery |-> FALSE, again |-> 1],
   [kind |-> "rate_limited", recovery |-> FALSE, again |-> 2],
   [kind |-> "oversize", recovery |-> TRUE, again |-> 0],
   [kind |-> "invalid_model", recovery |-> FALSE, again |-> 0]}
AllOrNone == {{}, {wa, wb, wc}}

NoCalls == \A o \in Caller : call[o] = Bare("dropped")
NoWrites == \A w \in Writes : writer[w] = "gone"

MCInit ==
  /\ Init /\ CallInit /\ PubInit
  /\ side \in {"memory", "calls", "writes"}
  /\ (side = "calls") # NoCalls /\ (side = "writes") # NoWrites
MCNext ==
  /\ \/ side = "memory" /\ Next /\ UNCHANGED <<callVars, pubVars>>
     \/ side = "calls" /\ CallNext /\ UNCHANGED <<vars, pubVars>>
     \/ side = "writes" /\ PubNext /\ UNCHANGED <<vars, callVars>>
  /\ UNCHANGED side

\* The fairness of each module, in the behaviours of its side.
MCSpec ==
  /\ MCInit /\ [][MCNext]_<<vars, callVars, pubVars, side>>
  /\ \A i \in Indexer : WF_vars(side = "memory" /\ Drain(i))
  /\ <>[][\A i \in Indexer : ~ Abandon(i)]_vars
  /\ WF_callVars(side = "calls" /\ Tick)
  /\ \A o \in Caller : WF_callVars(side = "calls" /\ Responds(o))
  /\ PubFairness
=============================================================================
