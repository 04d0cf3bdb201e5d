------------------------- MODULE PEFConfigConcurrent -------------------------
(***************************************************************************)
(* Client.GetPEFConfig composed with a controller whose PEF configuration  *)
(* another session may change while the call runs.  The retrieval is      *)
(* PEFConfigRetrieval unchanged; the composition adds what each exchange  *)
(* read.  GetPEFConfig neither reads nor sets SetInProgress (parameter 0) *)
(* and issues every parameter as its own exchange.                         *)
(*                                                                         *)
(* The controller is modelled from IPMI v2.0 30.4 / table 30-6: a stored   *)
(* item carries a version that a Set PEF Configuration Parameters command  *)
(* of the other session increments.  Parameter 7 (Event Filter Table Data *)
(* 1) is octet 1 of the event filter entry of parameter 6 with the same    *)
(* set selector, so both parameters read the same stored item.  The count *)
(* parameters are read-only.                                               *)
(***************************************************************************)
EXTENDS Naturals, TLC

CONSTANTS
  NULL,
  CountValues,    \* the counts the controller reports
  MaxWrites       \* how many Set commands the other session issues

VARIABLES
  pc, i, scalars, counts, arrays, lastReq, ret,   \* GetPEFConfig
  store,     \* the controller's items: item -> version
  got,       \* what GetPEFConfig read: request -> version of its item
  history,   \* every state of the store since the call began
  writes     \* Set commands issued so far

retrievalVars == <<pc, i, scalars, counts, arrays, lastReq, ret>>
vars == <<retrievalVars, store, got, history, writes>>

R == INSTANCE PEFConfigRetrieval

MaxCount == CHOOSE c \in CountValues : \A d \in CountValues : d <= c

\* The stored item a request reads (spec-modelled controller).
Storage(req) ==
  CASE req.param = "EventFiltersData1"  -> <<"EventFilters", req.set>>
    [] req.param \in R!Arrays           -> <<req.param, req.set>>
    [] OTHER                            -> <<req.param, 0>>

TableItems == {<<a, k>> : a \in R!Arrays \ {"EventFiltersData1"},
                          k \in 1..MaxCount}
Items == {<<p, 0>> : p \in R!ScalarParams \cup R!CountParams} \cup TableItems

\* What the other session may set: scalars and table entries, not counts.
Writable == {<<p, 0>> : p \in R!ScalarParams} \cup TableItems

Init ==
  /\ R!Init
  /\ store = [x \in Items |-> 0]
  /\ got = <<>>
  /\ history = {[x \in Items |-> 0]}
  /\ writes = 0

\* A successful exchange of GetPEFConfig reads the item its request names.
ReadParam ==
  /\ R!FetchScalar \/ R!FetchCount \/ R!FetchEntry
  /\ got' = (R!CurrentReq :> store[Storage(R!CurrentReq)]) @@ got
  /\ UNCHANGED <<store, history, writes>>

\* A step of GetPEFConfig that reads nothing.
ReaderStep ==
  /\ R!EndLoop \/ R!FetchFailed \/ R!Finish
  /\ UNCHANGED <<store, got, history, writes>>

\* The other session sets one parameter while GetPEFConfig runs.
SetParam ==
  /\ pc \notin {"Done", "Failed"}
  /\ writes < MaxWrites
  /\ \E x \in Writable :
       /\ store' = [store EXCEPT ![x] = @ + 1]
       /\ history' = history \cup {store'}
  /\ writes' = writes + 1
  /\ UNCHANGED <<retrievalVars, got>>

Next == ReadParam \/ ReaderStep \/ SetParam

Spec == Init /\ [][Next]_vars

-----------------------------------------------------------------------------
\* Spec 1 / 4.5: GetPEFConfig is one logically atomic read.  A returned
\* configuration is one the controller held at some instant during the
\* call: every parameter, each filter entry and its Data 1 octet included,
\* comes from the same state of the store.
ResultWasConfiguration ==
  pc = "Done" =>
    \E h \in history : \A req \in DOMAIN got : got[req] = h[Storage(req)]
=============================================================================
