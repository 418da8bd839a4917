------------------------ MODULE WorkflowReloadProofs ------------------------
(***************************************************************************)
(* Proofs about WorkflowReload: types, and what a request that is not      *)
(* overlapped by another one achieves.                                     *)
(***************************************************************************)
EXTENDS WorkflowReload, TLAPS

LEMMA InitType == Init => TypeOK
<1> USE ConstantsAssumption DEF Workflows, States
<1>1. Nothing \in Workflows /\ Unknown \in [Ids -> States \cup {"unknown"}]
  BY DEF Nothing, Unknown
<1>2. \A failed : SavedConfig(Nothing, failed) \in Workflows
  BY <1>1 DEF SavedConfig
<1> QED
  BY <1>1, <1>2 DEF Init, TypeOK, EnabledRules

\* The types are preserved by every step.
LEMMA TypeStep == TypeOK /\ [Next]_vars => TypeOK'
<1> SUFFICES ASSUME TypeOK, [Next]_vars PROVE TypeOK'
  OBVIOUS
<1>a. Nothing \in Workflows /\ Unknown \in [Ids -> States \cup {"unknown"}]
  BY DEF Nothing, Unknown, Workflows, States
<1>b. Workflows \subseteq [Ids -> States \cup {"unknown"}]
  BY DEF Workflows
<1>c. \A list : EnabledRules(list) \in SUBSET Ids
  BY DEF EnabledRules
<1> USE <1>a, <1>c DEF TypeOK
<1>1. ASSUME NEW q \in Requests, NEW list \in Workflows, Begins(q, list) PROVE TypeOK'
  BY <1>1 DEF Begins, Now
<1>2. ASSUME NEW q \in Requests, Toggle(q) PROVE TypeOK'
  <2>1. PICK i \in Ids, s \in {"off", "on"} : Begins(q, [registry EXCEPT ![i] = s])
    BY <1>2 DEF Toggle
  <2>2. [registry EXCEPT ![i] = s] \in Workflows
    BY DEF Workflows, States
  <2> QED
    BY <2>1, <2>2, <1>1
<1>3. ASSUME NEW q \in Requests, Reload(q) PROVE TypeOK'
  BY <1>3, <1>1, ConstantsAssumption DEF Reload
<1>4. ASSUME NEW q \in Requests, Replace(q) PROVE TypeOK'
  BY <1>4 DEF Replace, aux
<1>5. ASSUME NEW q \in Requests, ReplaceFails(q) PROVE TypeOK'
  BY <1>5 DEF ReplaceFails, aux
<1>6. ASSUME NEW q \in Requests, Install(q) PROVE TypeOK'
  BY <1>6 DEF Install, aux
<1>7. ASSUME NEW q \in Requests, SetRules(q) PROVE TypeOK'
  BY <1>7, <1>b DEF SetRules
<1>8. CASE Restart
  <2>1. /\ Restored(table) \in Workflows
        /\ \A failed : SavedConfig(table, failed) \in Workflows
    BY ConstantsAssumption DEF Restored, SavedConfig, Workflows
  <2>2. promise' \in [Ids -> States \cup {"unknown"}]
    BY <1>8 DEF Restart
  <2> QED
    BY <1>8, <2>1, <2>2, ConstantsAssumption DEF Restart
<1>9. CASE UNCHANGED vars
  BY <1>9 DEF vars
<1> QED
  BY <1>2, <1>3, <1>4, <1>5, <1>6, <1>7, <1>8, <1>9 DEF Next

\* TypeOK holds for any workflows, configuration and number of requests.
THEOREM Typing == Spec => []TypeOK
  BY InitType, TypeStep, PTL DEF Spec

----------------------------------------------------------------------------
(***************************************************************************)
(* A request alone is the only one under way, and what it has done so far  *)
(* can be read off how far it is.                                          *)
(***************************************************************************)
Installed(q) ==
  CASE request[q].at = "replace" -> Now = before
    [] request[q].at = "install" -> storage => table = request[q].list
    [] request[q].at = "rules"   -> /\ storage => table = request[q].list
                                    /\ registry = request[q].list
    [] OTHER -> TRUE

AloneInv ==
  \A q \in alone : Installed(q) /\ \A p \in Requests \ {q} : request[p].at = "idle"

\* While something is promised, no request is under way.
PromiseInv ==
  /\ PromiseIsKept
  /\ (\E i \in Ids : promise[i] # "unknown") => \A q \in Requests : request[q].at = "idle"

IInv == TypeOK /\ AloneInv /\ PromiseInv

LEMMA InitInv == Init => AloneInv /\ PromiseInv
BY DEF Init, AloneInv, PromiseInv, PromiseIsKept, Unknown

LEMMA AloneStep == IInv /\ [Next]_vars => AloneInv'
<1> SUFFICES ASSUME IInv, [Next]_vars PROVE AloneInv'
  OBVIOUS
<1> USE DEF IInv, TypeOK, AloneInv, Installed
<1>1. ASSUME NEW q \in Requests, NEW list, Begins(q, list) PROVE AloneInv'
  BY <1>1 DEF Begins, Now
<1>2. ASSUME NEW q \in Requests, Toggle(q) \/ Reload(q) PROVE AloneInv'
  BY <1>2, <1>1 DEF Toggle, Reload
<1>3. ASSUME NEW q \in Requests, Replace(q) PROVE AloneInv'
  BY <1>3 DEF Replace, aux, Now
<1>4. ASSUME NEW q \in Requests, ReplaceFails(q) PROVE AloneInv'
  BY <1>4 DEF ReplaceFails, aux, Now
<1>5. ASSUME NEW q \in Requests, Install(q) PROVE AloneInv'
  BY <1>5 DEF Install, aux, Now
<1>6. ASSUME NEW q \in Requests, SetRules(q) PROVE AloneInv'
  BY <1>6 DEF SetRules, Now
<1>7. CASE Restart
  BY <1>7 DEF Restart
<1>8. CASE UNCHANGED vars
  BY <1>8 DEF vars, Now
<1> QED
  BY <1>2, <1>3, <1>4, <1>5, <1>6, <1>7, <1>8 DEF Next

LEMMA PromiseStep == IInv /\ [Next]_vars => PromiseInv'
<1> SUFFICES ASSUME IInv, [Next]_vars PROVE PromiseInv'
  OBVIOUS
<1> USE DEF IInv, PromiseInv, PromiseIsKept
<1>1. ASSUME NEW q \in Requests, NEW list, Begins(q, list) PROVE PromiseInv'
  BY <1>1 DEF Begins, Unknown
<1>2. ASSUME NEW q \in Requests, Toggle(q) \/ Reload(q) PROVE PromiseInv'
  BY <1>2, <1>1 DEF Toggle, Reload
\* The steps of a request under way find nothing promised.
<1>3. ASSUME NEW q \in Requests, Replace(q) \/ ReplaceFails(q) \/ Install(q)
      PROVE  PromiseInv'
  BY <1>3 DEF Replace, ReplaceFails, Install, aux
<1>4. ASSUME NEW q \in Requests, SetRules(q) PROVE PromiseInv'
  <2>1. CASE q \in alone
    <3>1. /\ promise' = request[q].list /\ rules' = EnabledRules(request[q].list)
          /\ registry' = request[q].list /\ storage' = storage
          /\ storage => table' = request[q].list
      BY <1>4, <2>1 DEF SetRules, AloneInv, Installed
    <3>2. \A p \in Requests : request'[p].at = "idle"
      BY <1>4, <2>1 DEF SetRules, AloneInv, TypeOK
    <3> QED
      BY <3>1, <3>2 DEF EnabledRules
  <2>2. CASE q \notin alone
    BY <1>4, <2>2 DEF SetRules
  <2> QED
    BY <2>1, <2>2
<1>5. CASE Restart
  <2>1. PICK loaded \in {FALSE, storage}, failed \in SUBSET {i \in Ids : Config[i] # "absent"} :
          LET list == IF loaded THEN Restored(table) ELSE Config
          IN /\ registry' = list
             /\ rules' = EnabledRules(list)
             /\ table' = IF storage THEN SavedConfig(table, failed) ELSE table
             /\ promise' = [i \in Ids |-> IF loaded /\ Config[i] = "absent"
                                          THEN promise[i] ELSE "unknown"]
    BY <1>5 DEF Restart
  <2>2. /\ storage' = storage
        /\ \A q \in Requests : request'[q].at = "idle"
    BY <1>5 DEF Restart
  <2>3. ASSUME NEW i \in Ids, promise'[i] # "unknown"
        PROVE  /\ storage => table'[i] = promise'[i]
               /\ registry'[i] = promise'[i]
               /\ i \in rules' <=> promise'[i] = "on"
    <3>a. loaded /\ Config[i] = "absent" /\ promise'[i] = promise[i]
      BY <2>1, <2>3
    <3>b. storage
      BY <3>a, <2>1, Zenon
    <3>1. loaded /\ storage /\ Config[i] = "absent" /\ promise'[i] = promise[i]
      BY <3>a, <3>b
    <3>2. table[i] = promise[i]
      BY <2>3, <3>1
    <3>3. registry'[i] = table[i] /\ table'[i] = table[i]
      BY <2>1, <3>1 DEF Restored, SavedConfig
    <3>4. i \in rules' <=> registry'[i] = "on"
      BY <2>1 DEF EnabledRules
    <3> QED
      BY <3>1, <3>2, <3>3, <3>4
  <2> QED
    BY <2>2, <2>3
<1>6. CASE UNCHANGED vars
  BY <1>6 DEF vars
<1> QED
  BY <1>2, <1>3, <1>4, <1>5, <1>6 DEF Next

LEMMA Invariance == Spec => []IInv
<1>1. Init => IInv
  BY InitType, InitInv DEF IInv
<1>2. IInv /\ [Next]_vars => IInv'
  BY TypeStep, AloneStep, PromiseStep DEF IInv
<1> QED
  BY <1>1, <1>2, PTL DEF Spec

\* What a request alone installed stays, also across restarts.
THEOREM PromiseTheorem == Spec => []PromiseIsKept
<1>1. IInv => PromiseIsKept
  BY DEF IInv, PromiseInv
<1> QED
  BY <1>1, Invariance, PTL

\* A request alone takes effect everywhere or nowhere.
THEOREM AllOrNothingTheorem == Spec => AllOrNothing
<1> DEFINE Whole ==
      \A q \in alone : Ends(q) /\ q \in alone' =>
        \/ /\ request[q].at = "rules"
           /\ storage => table' = request[q].list
           /\ registry' = request[q].list
           /\ rules' = EnabledRules(request[q].list)
        \/ /\ request[q].at = "replace"
           /\ [table |-> table', registry |-> registry', rules |-> rules'] = before
<1>1. IInv /\ [Next]_vars => [Whole]_vars
  <2> SUFFICES ASSUME IInv, Next, NEW q \in alone, Ends(q), q \in alone'
               PROVE  \/ /\ request[q].at = "rules"
                         /\ storage => table' = request[q].list
                         /\ registry' = request[q].list
                         /\ rules' = EnabledRules(request[q].list)
                      \/ /\ request[q].at = "replace"
                         /\ [table |-> table', registry |-> registry', rules |-> rules'] = before
    OBVIOUS
  <2> USE DEF IInv, TypeOK, AloneInv, Installed, Ends
  <2>1. q \in Requests /\ ~Restart
    BY DEF Restart
  <2>2. PICK p \in Requests : Toggle(p) \/ Reload(p) \/ Replace(p) \/ ReplaceFails(p)
                              \/ Install(p) \/ SetRules(p)
    BY <2>1 DEF Next
  <2>3. p = q
    BY <2>1, <2>2 DEF Toggle, Reload, Begins, Replace, ReplaceFails, Install, SetRules
  <2>4. CASE ReplaceFails(q)
    BY <2>4 DEF ReplaceFails, Now
  <2>5. CASE SetRules(q)
    BY <2>5 DEF SetRules
  <2>6. ~(Toggle(q) \/ Reload(q) \/ Replace(q) \/ Install(q))
    BY <2>1 DEF Toggle, Reload, Begins, Replace, Install
  <2> QED
    BY <2>2, <2>3, <2>4, <2>5, <2>6
<1> QED
  BY <1>1, Invariance, PTL DEF Spec, AllOrNothing
=============================================================================
