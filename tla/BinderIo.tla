------------------------------ MODULE BinderIo ------------------------------
(***************************************************************************)
(* The service manager's own binder library,                               *)
(* native/cmds/servicemanager/binder.c: the buffers messages are put into  *)
(* and got from (binder_io), a client's binder_call(), as bctest.c makes   *)
(* it, and binder_loop() with a handler as svcmgr_handler() is one, which  *)
(* gets what it expects and puts an answer or returns a status.            *)
(*                                                                         *)
(* A word is 4 bytes.  A text is as long as its value says; what an object *)
(* refers to has the same number on either side.                           *)
(***************************************************************************)
EXTENDS Integers, Sequences, FiniteSets, SequencesExt

CONSTANTS
  RequestWords,  \* size of a client's iodata
  ReplyWords,    \* size of binder_parse()'s rdata
  MaxOffs,       \* offsets reserved in each, a word for each
  ObjectWords,   \* size of a flat_binder_object
  Wide,          \* whether a size_t has more bits than the length of a text
  Lengths,       \* the lengths of texts
  MaxItems       \* bound: what is put into a request

BinderIoAssumption ==
  /\ {RequestWords, ReplyWords, MaxOffs, ObjectWords, MaxItems} \union Lengths \subseteq Nat
  /\ ObjectWords > 0 /\ Wide \in BOOLEAN

VARIABLES
  msg,       \* the binder_io of the request
  sent,      \* history: what was put into it
  want,      \* what the client will get of the answer
  got,       \* what the handler got
  answer,    \* history: what it put or returned; whether that had room
  reply,     \* the binder_io of the reply
  toClient,  \* driver: what the client has not read
  buffers,   \* driver: the buffers that hold a message
  result     \* binder_call()'s, or that it has not returned

ioVars == <<msg, sent, want, got, answer, reply, toClient, buffers, result>>

Item(kind, value) == [kind |-> kind, value |-> value]
Status == Item("status", -1)
Empty == Item("empty", 0)
Missing == -1   \* a NULL text
Anything == -2  \* what is not what was put
NoLength == -1  \* 0xffffffff

Items ==
  {Item("int", v) : v \in {0, 1}} \union {Item("text", n) : n \in Lengths}
    \union {Item("text", Missing), Item("object", 2), Item("ref", 0), Item("ref", 1)}

-----------------------------------------------------------------------------
(* Putting *)

Word(type, value) == [type |-> type, value |-> value]
Words(type, value, n) == [i \in 1 .. n |-> IF i = 1 THEN Word(type, value) ELSE Word("rest", 0)]
TextWords(len) == (len + 2) \div 2

NoIo ==
  [data |-> <<>>, offs |-> <<>>, at |-> 0, data_avail |-> 0, offs_avail |-> 0, flags |-> {}]
BioInit(maxdata, maxoffs) ==
  IF maxoffs > maxdata THEN [NoIo EXCEPT !.flags = {"overflow"}]
  ELSE [NoIo EXCEPT !.data_avail = maxdata - maxoffs, !.offs_avail = maxoffs]

Overflow(bio) == [bio EXCEPT !.flags = @ \union {"overflow"}]
BioAlloc(bio, words) ==
  IF Len(words) > bio.data_avail THEN Overflow(bio)
  ELSE [bio EXCEPT !.data = @ \o words, !.data_avail = @ - Len(words)]

BioAllocObj(bio, words) ==
  LET put == BioAlloc(bio, words) IN
  IF put.data # bio.data /\ bio.offs_avail > 0
    THEN [put EXCEPT !.offs = Append(@, Len(bio.data)), !.offs_avail = @ - 1]
    ELSE Overflow(put)

(* A reference to the manager itself, 0, has no offset.                    *)
Put(bio, item) ==
  CASE item.kind = "int" -> BioAlloc(bio, <<Word("int", item.value)>>)
    [] item.kind = "text" /\ item.value = Missing -> BioAlloc(bio, <<Word("int", NoLength)>>)
    [] item.kind = "text" /\ item.value # Missing ->
         BioAlloc(BioAlloc(bio, <<Word("int", item.value)>>),
                  Words("text", item.value, TextWords(item.value)))
    [] item.kind = "object" -> BioAllocObj(bio, Words("binder", item.value, ObjectWords))
    [] item.kind = "ref" /\ item.value # 0 ->
         BioAllocObj(bio, Words("handle", item.value, ObjectWords))
    [] item.kind = "ref" /\ item.value = 0 -> BioAlloc(bio, Words("handle", 0, ObjectWords))

(* The driver makes a handle of each object that has an offset; a status   *)
(* is sent as data of its own.                                             *)
Carried(bio) ==
  [NoIo EXCEPT
    !.data = [i \in DOMAIN bio.data |->
                IF i - 1 \in ToSet(bio.offs) THEN Word("handle", bio.data[i].value)
                ELSE bio.data[i]],
    !.offs = bio.offs,
    !.data_avail = Len(bio.data), !.offs_avail = Len(bio.offs), !.flags = {"shared"}]

-----------------------------------------------------------------------------
(* Getting: what is left of the buffer, and the value. *)

Left(bio, n) == [bio EXCEPT !.at = @ + n, !.data_avail = @ - n]
Nothing(bio) == [Overflow(bio) EXCEPT !.data_avail = 0]
BioGet(bio, n, type) ==
  [bio   |-> IF n > bio.data_avail THEN Nothing(bio) ELSE Left(bio, n),
   null  |-> n > bio.data_avail,
   value |-> IF n > 0 /\ n <= bio.data_avail /\ bio.data[bio.at + 1].type = type
               THEN bio.data[bio.at + 1].value ELSE Anything]

GetUint32(bio) ==
  LET word == BioGet(bio, 1, "int") IN [word EXCEPT !.value = IF word.null THEN 0 ELSE @]

(* Of no text, a narrow size_t makes one of no bytes that is not NULL.     *)
GetString16(bio) ==
  LET len == GetUint32(bio)
      text == IF len.value = NoLength /\ Wide
                THEN [bio |-> Nothing(len.bio), null |-> TRUE, value |-> Missing]
              ELSE BioGet(len.bio, IF len.value = NoLength THEN 0 ELSE TextWords(len.value), "text")
  IN [text EXCEPT !.value = IF text.null THEN Missing ELSE @]

(* An object is got where it has an offset only.                           *)
GetRef(bio) ==
  LET object == IF bio.at \in ToSet(bio.offs) THEN BioGet(bio, ObjectWords, "handle")
                ELSE [bio |-> Nothing(bio), null |-> TRUE, value |-> 0]
  IN [object EXCEPT !.value = IF object.null \/ @ = Anything THEN 0 ELSE @]

Get(bio, kind) ==
  CASE kind = "int" -> GetUint32(bio)
    [] kind = "text" -> GetString16(bio)
    [] kind \in {"object", "ref"} -> GetRef(bio)
    [] kind = "empty" -> [bio |-> bio, null |-> FALSE, value |-> 0]

-----------------------------------------------------------------------------
(* The client *)

Init ==
  /\ msg = BioInit(RequestWords, MaxOffs) /\ sent = <<>> /\ want = "none"
  /\ got = <<>> /\ answer = Empty /\ reply = NoIo
  /\ toClient = <<>> /\ buffers = {} /\ result = "none"

PutItem(item) ==
  /\ want = "none" /\ Len(sent) < MaxItems
  /\ msg' = Put(msg, item) /\ sent' = Append(sent, item)
  /\ UNCHANGED <<want, got, answer, reply, toClient, buffers, result>>

(* binder_call(): a request that has overflown is not sent; the driver may *)
(* have no room for one that is.                                           *)
Failed == reply' = [NoIo EXCEPT !.flags = {"ioerror"}] /\ result' = "failed"
Call(kind) ==
  /\ want = "none" /\ want' = kind
  /\ IF "overflow" \in msg.flags THEN Failed /\ UNCHANGED <<toClient, buffers>>
     ELSE /\ \/ toClient' = <<"complete">> /\ buffers' = {"request"}
             \/ toClient' = <<"failed reply">> /\ UNCHANGED buffers
          /\ UNCHANGED <<reply, result>>
  /\ UNCHANGED <<msg, sent, got, answer>>

(* binder_parse() of the first n commands; what the reply's bio is made    *)
(* of is the message the manager has left in the driver.                   *)
Parse(n) ==
  /\ result = "none" /\ n <= Len(toClient)
  /\ toClient' = SubSeq(toClient, n + 1, Len(toClient))
  /\ LET read == ToSet(SubSeq(toClient, 1, n)) IN
     IF read \intersect {"failed reply", "dead reply"} # {} THEN Failed
     ELSE IF "reply" \in read THEN result' = "ok" /\ UNCHANGED reply
     ELSE UNCHANGED <<reply, result>>
  /\ UNCHANGED <<msg, sent, want, got, answer, buffers>>

(* What is wanted is got, and binder_done() frees the buffer; a client     *)
(* whose call failed does neither.  Then the next request is begun.        *)
Freed == IF "shared" \in reply.flags THEN buffers \ {"reply"} ELSE buffers
Done ==
  /\ result # "none"
  /\ buffers' = IF result = "ok" THEN Freed ELSE buffers
  /\ msg' = BioInit(RequestWords, MaxOffs) /\ sent' = <<>> /\ want' = "none"
  /\ got' = <<>> /\ answer' = Empty /\ reply' = NoIo /\ result' = "none"
  /\ UNCHANGED toClient

-----------------------------------------------------------------------------
(* The manager *)

(* The handler gets item after item; it returns a status if there is no    *)
(* text where it wants one.                                                *)
GotAll ==
  FoldLeft(LAMBDA g, item :
             LET one == Get(g.bio, item.kind) IN
             [bio |-> one.bio, values |-> Append(g.values, one.value),
              refused |-> g.refused \/ (item.kind = "text" /\ one.null)],
           [bio |-> Carried(msg), values |-> <<>>, refused |-> FALSE], sent)

Answers ==
  {Status} \union
  CASE want = "int" -> {Item("int", 0)}
    [] want = "ref" -> {Item("ref", 1), Item("int", 0)}
    [] want = "text" -> {Item("text", n) : n \in Lengths}
    [] want = "empty" -> {Empty}

(* The reply is put into a buffer of its own and sent, overflown or not,   *)
(* as the request's buffer is freed.                                       *)
Reply(item) ==
  LET bio == IF item = Status THEN [NoIo EXCEPT !.data = <<Word("int", Status.value)>>]
             ELSE IF item = Empty THEN BioInit(ReplyWords, MaxOffs)
             ELSE Put(BioInit(ReplyWords, MaxOffs), item)
  IN /\ answer' = [item EXCEPT !.kind = IF "overflow" \in bio.flags THEN "cut" ELSE @]
     /\ reply' = Carried(bio)

Handle(item) ==
  /\ "request" \in buffers
  /\ GotAll.refused => item = Status
  /\ got' = GotAll.values
  /\ Reply(item)
  /\ buffers' = (buffers \ {"request"}) \union {"reply"}
  /\ toClient' = Append(toClient, "reply")
  /\ UNCHANGED <<msg, sent, want, result>>

(* The manager dies with a request.                                        *)
Die ==
  /\ "request" \in buffers
  /\ buffers' = buffers \ {"request"}
  /\ toClient' = Append(toClient, "dead reply")
  /\ UNCHANGED <<msg, sent, want, got, answer, reply, result>>

-----------------------------------------------------------------------------
Next ==
  \/ \E item \in Items : PutItem(item)
  \/ \E kind \in {"int", "ref", "text", "empty"} : Call(kind)
  \/ \E n \in 1 .. 2 : Parse(n)
  \/ Done
  \/ "request" \in buffers /\ \E item \in Answers : Handle(item)
  \/ Die

Spec == Init /\ [][Next]_ioVars

-----------------------------------------------------------------------------
(* Properties *)

(* A handler gets what the client put, item after item, whatever comes     *)
(* before, unless that was a reference to the manager or no text, after    *)
(* which nothing is got.                                                   *)
Stops(item) == item = Item("ref", 0) \/ item = Item("text", Missing)
RequestsArrive ==
  \A i \in DOMAIN got : (\A j \in 1 .. i - 1 : ~Stops(sent[j])) => got[i] = sent[i].value

(* A client whose call has returned gets the answer, no reference where    *)
(* there is none, and a number that is not 0 of a request that is refused; *)
(* unless the answer was cut.                                              *)
AnswersArrive ==
  result = "ok" /\ answer.kind # "cut" =>
    LET value == Get(reply, want).value IN
    IF answer.kind = want THEN value = answer.value
    ELSE (want = "int" => value # 0) /\ (want = "ref" => value = 0)

(* No buffer of the driver is held when nothing is on its way, and no      *)
(* command is left unread for the next call.                               *)
BuffersAreFreed == want = "none" => buffers = {} /\ toClient = <<>>

(* Nothing is put behind the end of a buffer or of its offsets.            *)
MessagesFit ==
  /\ Len(msg.data) + MaxOffs <= RequestWords /\ Len(msg.offs) <= MaxOffs
  /\ reply.data # <<>> /\ answer # Status => Len(reply.data) + MaxOffs <= ReplyWords

(* A message arrives as it was sent, and leaves nothing behind.            *)
MessagesArrive == MessagesFit /\ RequestsArrive /\ AnswersArrive /\ BuffersAreFreed

=============================================================================
