----------------------------- MODULE MCProcess -----------------------------
(* Both ends of a process's binders; each behaviour is of one of them.     *)
(*   - The proxies (HandleTable), here for one handle, with as many        *)
(*     threads as can race on it and a proxy more than can be alive: the   *)
(*     one being deleted, its successor, and that one's.                   *)
(*   - A pool thread (IPCThreadState), here with two objects and two       *)
(*     callers, and five activations: a destructor run by the loop of      *)
(*     derefs calls out, is called back, and calls out from there.         *)
EXTENDS HandleTable, TLC

CONSTANTS Objects, Callers, Self, Nobody, MaxStack, MaxWork
VARIABLES
  mIn, mOut, stack, caller, pending, strongOf, known, tstack, todo, work,
  used  \* whose behaviour it is

loopVars == <<mIn, mOut, stack, caller, pending, strongOf, known, tstack, todo, work>>

Loop == INSTANCE IPCThreadState WITH strong <- strongOf
ASSUME LoopAssumption == Loop!IPCThreadStateAssumption

(* The callers of the one part have the names of the threads of the other, *)
(* of which no behaviour has both: one permutation serves the two.         *)
Symmetric ==
  Permutations(Threads) \union Permutations(Proxies) \union Permutations(Objects)

ProcessInit == used \in {"proxies", "loop"} /\ Init /\ Loop!Init

ProcessNext ==
  \/ used = "proxies" /\ Next /\ UNCHANGED <<loopVars, used>>
  \/ used = "loop" /\ Loop!Next /\ UNCHANGED <<vars, used>>

ProcessSpec == ProcessInit /\ [][ProcessNext]_<<vars, loopVars, used>>

(* There is one proxy for a handle at a time, the table's, and the table   *)
(* never names one that is gone.                                           *)
TheTableHasTheProxy == TypeOK /\ OneProxyPerHandle /\ TableIsCurrent

(* Each of the calls under way gets the answer to itself.                  *)
RepliesReachTheirCalls == Loop!TypeOK /\ Loop!RepliesReachTheirCalls

(* Each activation runs under its caller's identity, and hands back the    *)
(* one it took over.                                                       *)
IdentityIsKept == Loop!IdentityIsKept

(* The references the driver has of an object are those it was given and   *)
(* not given back.                                                         *)
ReferencesAreBalanced == Loop!ReferencesAreBalanced

=============================================================================
