--------------------------- MODULE IPCThreadState ---------------------------
(***************************************************************************)
(* One thread of the pool, libs/binder/IPCThreadState.cpp: its loop in     *)
(* joinThreadPool(), the commands it executes, the calls the program makes *)
(* while it executes them, and the calls it gets while it waits for an     *)
(* answer.  The driver's part (its transaction stack, the work it has for  *)
(* the thread and for the process) is external and modelled as far as the  *)
(* thread can tell.                                                        *)
(*                                                                         *)
(* The thread's call stack is explicit: an activation for each transaction *)
(* it serves, each waitForResponse(), the loop of processPendingDerefs()   *)
(* and each destructor run by it.                                          *)
(***************************************************************************)
EXTENDS Naturals, Sequences, SequencesExt, FiniteSets

CONSTANTS
  Objects,   \* local BBinders; one whose last reference went may be made anew
  Callers,   \* identities of other processes
  Self,      \* the process's own identity
  Nobody,    \* no object, no identity
  MaxStack,  \* bound: activations
  MaxWork    \* bound: work the driver has for the process

IPCThreadStateAssumption ==
  /\ Self \notin Callers /\ Nobody \notin Objects \union Callers \union {Self}
  /\ MaxStack \in Nat /\ MaxWork \in Nat

VARIABLES
  mIn,      \* commands received and not yet read
  mOut,     \* transactions and replies not yet written
  stack,    \* activations, the innermost last
  caller,   \* mCallingPid and mCallingUid
  pending,  \* mPendingStrongDerefs
  strong,   \* the strong count of each object
  known,    \* driver: the objects it holds a reference to
  tstack,   \* driver: the transactions under way, in or out
  todo,     \* driver: work for this thread
  work      \* driver: work for any thread of the process

vars == <<mIn, mOut, stack, caller, pending, strong, known, tstack, todo, work>>
driver == <<known, tstack, todo, work>>

(* A command of the driver: for an object, from a caller, one-way or not;  *)
(* a reply has the depth of its call in the driver's stack.                *)
Command(c, o, from, oneway, depth) ==
  [cmd |-> c, obj |-> o, from |-> from, oneway |-> oneway, depth |-> depth]
Complete == Command("complete", Nobody, Nobody, FALSE, 0)

(* An activation: the object served, carried or destroyed; the identity to *)
(* restore; the caller; whether no reply is due; a loop's position.        *)
Activation(k, o, from, oneway, n) ==
  [kind |-> k, obj |-> o, orig |-> caller, from |-> from, oneway |-> oneway, n |-> n]

Push(a) == stack' = Append(stack, a)
Pop == stack' = Front(stack)
On(kinds) == stack # <<>> /\ Last(stack).kind \in kinds
Top == Last(stack)

Init ==
  /\ mIn = <<>> /\ mOut = <<>> /\ stack = <<>> /\ caller = Self /\ pending = <<>>
  /\ strong = [o \in Objects |-> 1] /\ known = Objects
  /\ tstack = <<>> /\ todo = <<>> /\ work = <<>>

-----------------------------------------------------------------------------
(* executeCommand() *)

Acquire(o) ==
  /\ strong' = [strong EXCEPT ![o] = @ + 1]
  /\ UNCHANGED <<stack, caller, pending>>

(* BR_RELEASE puts the release off; a variant drops the reference at once, *)
(* and runs the destructor if it was the last.                             *)
ReleaseAtOnce(o) ==
  /\ strong' = [strong EXCEPT ![o] = @ - 1]
  /\ IF strong[o] = 1 THEN Push(Activation("destroy", o, Nobody, FALSE, 0))
     ELSE UNCHANGED stack
  /\ UNCHANGED <<caller, pending>>
Release(o) ==
  /\ pending' = Append(pending, o)
  /\ UNCHANGED <<stack, caller, strong>>

(* BR_TRANSACTION takes on the caller's identity and a reference to the    *)
(* object; without one it only replies.                                    *)
Transact(c) ==
  /\ caller' = c.from
  /\ Push(Activation(IF strong[c.obj] > 0 THEN "serve" ELSE "served",
                     c.obj, c.from, c.oneway, 0))
  /\ strong' = [strong EXCEPT ![c.obj] = IF @ > 0 THEN @ + 1 ELSE 0]
  /\ UNCHANGED pending

Execute(c) ==
  CASE c.cmd = "acquire"     -> Acquire(c.obj)
    [] c.cmd = "release"     -> Release(c.obj)
    [] c.cmd = "transaction" -> Transact(c)
    [] OTHER                 -> UNCHANGED <<stack, caller, pending, strong>>

-----------------------------------------------------------------------------
(* What the thread does *)

(* The driver is talked to in the loop, when there is nothing to put off   *)
(* any more, and in waitForResponse(); it is read, and written to, only    *)
(* when all commands it has sent have been read.                           *)
Talking == mIn = <<>> /\ (On({"wait"}) \/ (stack = <<>> /\ pending = <<>>))

(* joinThreadPool() executes the next command.                             *)
GetAndExecuteCommand ==
  /\ stack = <<>> /\ mIn # <<>>
  /\ Execute(Head(mIn))
  /\ mIn' = Tail(mIn)
  /\ UNCHANGED <<mOut, driver>>

(* waitForResponse(): what ends it.                                        *)
EndsWait(c, w) == IF w.oneway THEN c.cmd \in {"complete", "failed"}
                  ELSE c.cmd \in {"reply", "failed"}

(* The Parcel that carried an object is gone when the call returns.        *)
WaitEnds ==
  /\ On({"wait"}) /\ mIn # <<>> /\ EndsWait(Head(mIn), Top)
  /\ Pop
  /\ mIn' = Tail(mIn)
  /\ strong' = [o \in Objects |-> IF o = Top.obj THEN strong[o] - 1 ELSE strong[o]]
  /\ UNCHANGED <<mOut, caller, pending, driver>>

WaitExecutes ==
  /\ On({"wait"}) /\ mIn # <<>> /\ ~EndsWait(Head(mIn), Top)
  /\ Execute(Head(mIn))
  /\ mIn' = Tail(mIn)
  /\ UNCHANGED <<mOut, driver>>

(* The program, serving a transaction or in a destructor, calls another    *)
(* process, with a new object in the Parcel or none.                       *)
Call(o, oneway) ==
  /\ On({"serve", "destroy"}) /\ Len(stack) < MaxStack
  /\ o # Nobody => strong[o] = 0
  /\ mOut' = Append(mOut, Command("transaction", o, Nobody, oneway, 0))
  /\ Push(Activation("wait", o, Nobody, oneway, 0))
  /\ strong' = [x \in Objects |-> IF x = o THEN 1 ELSE strong[x]]
  /\ UNCHANGED <<mIn, caller, pending, driver>>

ClearCallingIdentity ==
  /\ On({"serve"}) /\ caller # Self
  /\ caller' = Self
  /\ UNCHANGED <<mIn, mOut, stack, pending, strong, driver>>

(* The program has served the transaction: the reference is given back, at *)
(* the cost of a destructor if it was the last; a variant keeps it.        *)
ServeReturnsKeeping ==
  /\ On({"serve"})
  /\ stack' = Append(Front(stack), [Top EXCEPT !.kind = "served"])
  /\ UNCHANGED <<mIn, mOut, caller, pending, strong, driver>>
ServeReturns ==
  LET served == Append(Front(stack), [Top EXCEPT !.kind = "served"]) IN
  /\ On({"serve"})
  /\ strong' = [strong EXCEPT ![Top.obj] = @ - 1]
  /\ stack' = IF strong[Top.obj] = 1
              THEN Append(served, Activation("destroy", Top.obj, Nobody, FALSE, 0))
              ELSE served
  /\ UNCHANGED <<mIn, mOut, caller, pending, driver>>

(* sendReply() and the wait for its completion, unless the call was        *)
(* one-way; then the identity before it is restored.  A variant keeps the  *)
(* identity of the one-way caller.                                         *)
SendReply ==
  /\ On({"served"}) /\ ~Top.oneway
  /\ mOut' = Append(mOut, Command("reply", Nobody, Nobody, FALSE, 0))
  /\ stack' = Front(stack) \o <<[Top EXCEPT !.kind = "replied"],
                                Activation("wait", Nobody, Nobody, TRUE, 0)>>
  /\ UNCHANGED <<mIn, caller, pending, strong, driver>>

TransactedKeeping ==
  /\ On({"replied"}) \/ (On({"served"}) /\ Top.oneway)
  /\ Pop
  /\ caller' = IF Top.oneway THEN caller ELSE Top.orig
  /\ UNCHANGED <<mIn, mOut, pending, strong, driver>>
Transacted ==
  /\ On({"replied"}) \/ (On({"served"}) /\ Top.oneway)
  /\ Pop
  /\ caller' = Top.orig
  /\ UNCHANGED <<mIn, mOut, pending, strong, driver>>

(* processPendingDerefs(), at the top of the loop: only when all commands  *)
(* have been read.                                                         *)
BeginDerefs ==
  /\ stack = <<>> /\ mIn = <<>> /\ pending # <<>>
  /\ Push(Activation("derefs", Nobody, Nobody, FALSE, 1))
  /\ UNCHANGED <<mIn, mOut, caller, pending, strong, driver>>

Deref ==
  /\ On({"derefs"}) /\ Top.n <= Len(pending)
  /\ LET o    == pending[Top.n]
         next == Append(Front(stack), [Top EXCEPT !.n = @ + 1])
     IN /\ strong' = [strong EXCEPT ![o] = @ - 1]
        /\ stack' = IF strong[o] = 1
                    THEN Append(next, Activation("destroy", o, Nobody, FALSE, 0))
                    ELSE next
  /\ UNCHANGED <<mIn, mOut, caller, pending, driver>>

EndDerefs ==
  /\ On({"derefs"}) /\ Top.n > Len(pending)
  /\ Pop
  /\ pending' = <<>>
  /\ UNCHANGED <<mIn, mOut, caller, strong, driver>>

Destroyed ==
  /\ On({"destroy"})
  /\ Pop
  /\ UNCHANGED <<mIn, mOut, caller, pending, strong, driver>>

-----------------------------------------------------------------------------
(* The driver *)

(* talkWithDriver(): the driver takes the commands one by one.  A reply    *)
(* answers the transaction on top of its stack; any other is refused.      *)
WriteCommand ==
  LET c == Head(mOut)
      new == c.obj # Nobody
  IN
  /\ Talking /\ mOut # <<>>
  /\ mOut' = Tail(mOut)
  /\ IF c.cmd = "transaction"
     THEN /\ tstack' = IF c.oneway THEN tstack ELSE Append(tstack, "out")
          /\ known' = IF new THEN known \union {c.obj} ELSE known
          /\ todo' = todo \o (IF new THEN <<Command("acquire", c.obj, Nobody, FALSE, 0)>> ELSE <<>>)
                          \o <<Complete>>
     ELSE /\ UNCHANGED known
          /\ IF tstack # <<>> /\ Last(tstack) = "in"
             THEN tstack' = Front(tstack) /\ todo' = Append(todo, Complete)
             ELSE todo' = Append(todo, Command("failed", Nobody, Nobody, FALSE, 0))
                  /\ UNCHANGED tstack
  /\ UNCHANGED <<mIn, stack, caller, pending, strong, work>>

(* It hands over what it has for the thread, or for the process if the     *)
(* thread is idle, up to the first transaction or reply.                   *)
Batch(q) ==
  LET stops == {i \in DOMAIN q : q[i].cmd \in {"transaction", "reply", "failed"}}
      n == IF stops = {} THEN Len(q) ELSE CHOOSE i \in stops : \A j \in stops : i <= j
  IN SubSeq(q, 1, n)

ReadCommands ==
  LET own == todo # <<>>
      b == Batch(IF own THEN todo ELSE work)
      rest(q) == SubSeq(q, Len(b) + 1, Len(q))
  IN
  /\ Talking /\ mOut = <<>> /\ b # <<>> /\ (own \/ tstack = <<>>)
  /\ mIn' = b
  /\ IF own THEN todo' = rest(todo) /\ UNCHANGED work
            ELSE work' = rest(work) /\ UNCHANGED todo
  /\ tstack' = IF Last(b).cmd = "transaction" /\ ~Last(b).oneway
               THEN Append(tstack, "in") ELSE tstack
  /\ UNCHANGED <<mOut, stack, caller, pending, strong, known>>

Queued(q) == {q[i] : i \in DOMAIN q}

(* A call of another process, for any thread; or back to this one, from    *)
(* the process it has called.                                              *)
TransactionFor(o, from, oneway) ==
  /\ o \in known /\ Len(work) < MaxWork
  /\ work' = Append(work, Command("transaction", o, from, oneway, 0))
  /\ UNCHANGED <<mIn, mOut, stack, caller, pending, strong, known, tstack, todo>>

CallBack(o, from) ==
  /\ o \in known /\ tstack # <<>> /\ Last(tstack) = "out"
  /\ Len(stack) < MaxStack
  /\ \A c \in Queued(todo \o mIn) : c.cmd \notin {"transaction", "reply"}
  /\ todo' = Append(todo, Command("transaction", o, from, FALSE, 0))
  /\ UNCHANGED <<mIn, mOut, stack, caller, pending, strong, known, tstack, work>>

ReplyFor ==
  /\ tstack # <<>> /\ Last(tstack) = "out"
  /\ \A c \in Queued(todo \o mIn) : c.cmd \notin {"transaction", "reply"}
  /\ todo' = Append(todo, Command("reply", Nobody, Nobody, FALSE, Len(tstack)))
  /\ tstack' = Front(tstack)
  /\ UNCHANGED <<mIn, mOut, stack, caller, pending, strong, known, work>>

(* The other processes' last reference goes: not while a transaction for   *)
(* the object is on its way or served, nor an acquire.                     *)
DropReference(o) ==
  /\ o \in known /\ Len(work) < MaxWork
  /\ \A c \in Queued(todo \o mIn \o work) :
       c.obj = o => c.cmd \notin {"transaction", "acquire"}
  /\ \A i \in DOMAIN stack : stack[i].obj = o => stack[i].kind \notin {"serve", "served", "replied"}
  /\ known' = known \ {o}
  /\ work' = Append(work, Command("release", o, Nobody, FALSE, 0))
  /\ UNCHANGED <<mIn, mOut, stack, caller, pending, strong, tstack, todo>>

-----------------------------------------------------------------------------
Thread ==
  \/ GetAndExecuteCommand \/ WaitEnds \/ WaitExecutes
  \/ \E o \in Objects \union {Nobody}, oneway \in BOOLEAN : Call(o, oneway)
  \/ ClearCallingIdentity \/ ServeReturns \/ SendReply \/ Transacted
  \/ BeginDerefs \/ Deref \/ EndDerefs \/ Destroyed
  \/ WriteCommand \/ ReadCommands

Others ==
  \/ \E o \in Objects, from \in Callers, oneway \in BOOLEAN : TransactionFor(o, from, oneway)
  \/ \E o \in Objects, from \in Callers : CallBack(o, from)
  \/ ReplyFor
  \/ \E o \in Objects : DropReference(o)

Next == Thread \/ Others

Spec == Init /\ [][Next]_vars

-----------------------------------------------------------------------------
(* Properties *)

Commands == [cmd : {"acquire", "release", "transaction", "complete", "reply", "failed"},
             obj : Objects \union {Nobody}, from : Callers \union {Nobody},
             oneway : BOOLEAN, depth : 0 .. MaxStack]
TypeOK ==
  /\ mIn \in Seq(Commands) /\ mOut \in Seq(Commands)
  /\ stack \in Seq([kind : {"serve", "served", "replied", "wait", "derefs", "destroy"},
                    obj : Objects \union {Nobody}, orig : Callers \union {Self},
                    from : Callers \union {Nobody}, oneway : BOOLEAN, n : Nat])
  /\ caller \in Callers \union {Self}
  /\ pending \in Seq(Objects)
  /\ strong \in [Objects -> 0 .. MaxStack + 2]
  /\ known \subseteq Objects
  /\ tstack \in Seq({"in", "out"})
  /\ todo \in Seq(Commands) /\ work \in Seq(Commands)

(* However calls back, destructors and releases interleave, a reply the    *)
(* thread writes answers the innermost transaction it has been given, so   *)
(* the driver never refuses it; one it reads is taken by the call it       *)
(* answers, and by nothing but a waitForResponse().                        *)
Open == {i \in DOMAIN stack : ~stack[i].oneway /\ stack[i].kind \in {"serve", "served", "wait"}}
RepliesReachTheirCalls ==
  /\ Talking /\ mOut # <<>> /\ Head(mOut).cmd = "reply" =>
       tstack # <<>> /\ Last(tstack) = "in"
  /\ mIn # <<>> /\ (stack = <<>> \/ On({"wait"})) =>
       /\ Head(mIn).cmd \in {"complete", "reply"} => stack # <<>>
       /\ Head(mIn).cmd = "reply" => ~Top.oneway /\ Head(mIn).depth = Cardinality(Open)

(* Whatever calls back it gets while it waits, the program finds the       *)
(* identity of its caller, or its own, as it left it; the idle thread has  *)
(* its own.                                                                *)
IdentityIsKept ==
  /\ stack = <<>> => caller = Self
  /\ On({"wait", "derefs", "destroy"}) => caller = Top.orig
  /\ On({"serve"}) => caller \in {Top.from, Self}

(* An object's strong count is what the driver has been promised, what has *)
(* not been given back yet, and what the activations hold: releases put    *)
(* off are neither forgotten nor made twice.                               *)
Count(q, c, o) == Cardinality({i \in DOMAIN q : q[i].cmd = c /\ q[i].obj = o})
ToDeref == IF \E i \in DOMAIN stack : stack[i].kind = "derefs"
           THEN SubSeq(pending, stack[1].n, Len(pending)) ELSE pending
Holding == {i \in DOMAIN stack : stack[i].kind \in {"serve", "wait"}}
ReferencesAreBalanced ==
  \A o \in Objects :
    strong[o] + Count(todo \o mIn, "acquire", o)
      = Cardinality(known \intersect {o}) + Count(work \o mIn, "release", o)
        + Cardinality({i \in DOMAIN ToDeref : ToDeref[i] = o})
        + Cardinality({i \in Holding : stack[i].obj = o})

=============================================================================
