---------------------------- MODULE AtomicStore ----------------------------
(***************************************************************************)
(* What the threads of a leveldb database may rely on (include/leveldb/    *)
(* db.h): a write takes effect as a whole, at one moment between its call  *)
(* and its return, or not at all when it returns an error; a read returns  *)
(* the store as it was when the read was called.                           *)
(***************************************************************************)
CONSTANTS Batches,  \* the writes
          Readers   \* the reading threads

VARIABLES call,    \* what each write's caller has seen of it
          store,   \* the order of the writes in effect: <<v, w>> if v is w or before w
          seen,    \* the store as of a running read's call
          result   \* what the last read of each reader returned

vars == <<call, store, seen, result>>

InEffect == {w \in Batches : <<w, w>> \in store}

\* The total orders of a set of writes.
Orders(S) ==
    {R \in SUBSET (S \X S) :
        /\ \A v, w \in S : <<v, w>> \in R \/ <<w, v>> \in R
        /\ \A v, w \in S : <<v, w>> \in R /\ <<w, v>> \in R => v = w
        /\ \A u, v, w \in S : <<u, v>> \in R /\ <<v, w>> \in R => <<u, w>> \in R}

Init ==
    /\ call = [w \in Batches |-> "no"] /\ store = {}
    /\ seen = [r \in Readers |-> {}] /\ result = [r \in Readers |-> {}]

Call(w) ==
    /\ call[w] = "no" /\ call' = [call EXCEPT ![w] = "called"]
    /\ UNCHANGED <<store, seen, result>>

\* Several waiting writes take effect together, in some order.
Commit ==
    \E S \in SUBSET {w \in Batches \ InEffect : call[w] = "called"} :
        /\ \E R \in Orders(S) : store' = store \cup (InEffect \X S) \cup R
        /\ UNCHANGED <<call, seen, result>>

Return(w) ==
    /\ call[w] = "called"
    /\ call' = [call EXCEPT ![w] = IF w \in InEffect THEN "ok" ELSE "error"]
    /\ UNCHANGED <<store, seen, result>>

Read(r) == /\ seen' = [seen EXCEPT ![r] = store]
           /\ UNCHANGED <<call, store, result>>

Answer(r) == /\ result' = [result EXCEPT ![r] = seen[r]]
             /\ UNCHANGED <<call, store, seen>>

Next == \/ \E w \in Batches : Call(w) \/ Return(w)
        \/ Commit
        \/ \E r \in Readers : Read(r) \/ Answer(r)

Spec == Init /\ [][Next]_vars
=============================================================================
