--------------------------- MODULE Streaming_proofs ---------------------------
(* A streamed answer, on both sides of the pipeline's generator: the body  *)
(* that carries its chunks to the client (StreamBody, the first part) and  *)
(* the runner that produces them (StreamRunner, the second).               *)
(*                                                                         *)
(* StreamBody: what the client gets, what is left behind when the          *)
(* generators are closed, and that the body implements StreamStages.       *)
(*                                                                         *)
(* StreamRunner: for every chain of finalizers, every budget and any       *)
(* number of frames, what the client gets is what the attempts that were   *)
(* kept produced, the terminal frames are in their place and tell what was *)
(* delivered, and every recovery is counted.  The invariant is about the   *)
(* runner's state while it reads (Reading); an answer that has ended has   *)
(* the properties themselves and keeps them when its loop is left (Over).  *)
(* The steps of the runner are functions of its state, and the lemmas are  *)
(* about them.                                                             *)
EXTENDS StreamBody, StreamRunner, SequenceTheorems, TLAPS

-----------------------------------------------------------------------------
(* The body.                                                               *)

Outer == {"wrapper", "handler", "keepalive"}
AtError == {"at_error", "at_done"}
AtYield == {"at_chunk", "at_keepalive"}

BodyItems == [kind : {"chunk", "keepalive", "error", "done"}, n : Nat]
Types ==
  /\ sent \in Seq(BodyItems)
  /\ made \in Nat
  /\ alive \subseteq Range(Stack)

\* Before its first step the body owns nothing but the lease.
Unstarted ==
  pos = "unstarted" =>
    /\ sender \in {"starting", "broken", "stopped"}
    /\ reader = "none" /\ timer = "off"
    /\ made = 0 /\ sent = <<>>
    /\ alive # {} => alive = Range(Stack) /\ slot = "held"
    /\ alive = {} => sender # "starting"

\* Where the stream task is and which generators are alive then.
TaskAndStack ==
  /\ sender = "starting" => pos = "unstarted" /\ alive = Range(Stack)
  /\ sender = "reading" => /\ pos \in {"waiting", "closing"}
                           /\ Outer \subseteq alive
  /\ sender = "sending" => /\ pos \in AtYield \cup AtError
                           /\ {"wrapper", "handler"} \subseteq alive
  /\ sender = "last" => pos \in {"waiting", "at_done"} /\ alive = {}
  /\ sender = "ended" => alive = {}
  /\ sender \in Finished => /\ pos = "waiting" => alive \subseteq {"upstream"}
                            /\ pos = "closing" => alive \cap {"wrapper", "handler"} = {}

\* A generator is alive as long as the one that iterates it, and the inner two
\* until the reader has met their end.
StackIsNested ==
  /\ "wrapper" \in alive => "handler" \in alive
  /\ "handler" \in alive /\ pos \notin AtError => "keepalive" \in alive
  /\ "pipeline" \in alive => "upstream" \in alive /\ "keepalive" \in alive
  /\ reader \in {"eof", "error", "cancelled"} => alive \cap Inner = {}
  /\ pos \in AtError => alive \cap {"keepalive", "pipeline", "upstream"} = {}

\* What the reader can be at where the body is suspended.
ReaderAtPlace ==
  /\ reader \in {"none", "reading", "chunk", "eof", "error", "taken", "cancelling", "cancelled"}
  /\ reader \in {"cancelling", "cancelled"} => pos = "closing"
  /\ pos = "waiting" => reader \in {"reading", "chunk", "eof", "error"}
  /\ pos = "at_chunk" => reader = "taken"
  /\ pos = "at_keepalive" => reader \in {"reading", "chunk", "eof", "error"}
  /\ pos \in AtError => reader = "error" /\ outcome = "failure"
  /\ pos = "closing" => reader \in {"cancelling", "cancelled"} /\ timer = "off"
  /\ outcome \in {"success", "failure"} => reader \in {"eof", "error"}

\* Whoever owns a thing is alive.
Owners ==
  /\ reader \in {"reading", "cancelling"} => "keepalive" \in alive
  /\ timer # "off" => "keepalive" \in alive
  /\ slot = "held" => "wrapper" \in alive
  /\ pos # "unstarted" => /\ "wrapper" \in alive => slot = "held"
                          /\ upstream = "open" => "upstream" \in alive
                          /\ outcome = "none" => "handler" \in alive

\* The chunks handed over are those made, but for one in the reader.
HandedOver == IF reader = "chunk" THEN made - 1 ELSE made
Relay ==
  /\ reader = "chunk" => made > 0
  /\ Delivered = 1..HandedOver
  /\ \A p, q \in ChunkPlaces : p < q => sent[p].n < sent[q].n

BodyInv == /\ Types /\ Unstarted /\ TaskAndStack /\ StackIsNested
           /\ ReaderAtPlace /\ Owners /\ Relay

\* Everything but the chunks that were handed over.
Control == Unstarted /\ TaskAndStack /\ StackIsNested /\ ReaderAtPlace /\ Owners

-----------------------------------------------------------------------------
LEMMA StackMembers ==
  Range(Stack) = {"wrapper", "handler", "keepalive", "pipeline", "upstream"}
<1>1. Len(Stack) = 5 /\ DOMAIN Stack = 1..5
  BY DEF Stack
<1>2. 1..5 = {1, 2, 3, 4, 5}
  OBVIOUS
<1>. QED
  BY <1>1, <1>2 DEF Range, Stack

\* The outermost generator is alive and those around it are not.
LEMMA OutermostMeaning ==
  ASSUME NEW g \in Range(Stack), Outermost(g)
  PROVE  /\ g \in alive
         /\ g # "wrapper" => "wrapper" \notin alive
         /\ g \in {"keepalive", "pipeline", "upstream"} => "handler" \notin alive
         /\ g \in Inner => "keepalive" \notin alive
         /\ g = "upstream" => "pipeline" \notin alive
<1>1. Len(Stack) = 5 /\ Stack[1] = "wrapper" /\ Stack[2] = "handler" /\ Stack[3] = "keepalive"
      /\ Stack[4] = "pipeline" /\ Stack[5] = "upstream"
  BY DEF Stack
<1>2. \A i \in 1..5 : Stack[i] \in alive => \E j \in 1..i : Stack[j] = g
  BY <1>1 DEF Outermost
<1>3. 1..1 = {1} /\ 1..2 = {1, 2} /\ 1..3 = {1, 2, 3} /\ 1..4 = {1, 2, 3, 4}
  OBVIOUS
<1>. QED
  BY <1>1, <1>2, <1>3 DEF Outermost, Inner

LEMMA ControlInit == BodyInit => Control
BY StackMembers DEF BodyInit, Control, Unstarted, TaskAndStack, StackIsNested, ReaderAtPlace,
   Owners, Outer, AtError, AtYield, Finished, Inner

LEMMA ControlStep == Control /\ alive \subseteq Range(Stack) /\ [BodyNext]_vars => Control'
<1> SUFFICES ASSUME Control, alive \subseteq Range(Stack), [BodyNext]_vars PROVE Control'
  OBVIOUS
<1> USE StackMembers DEF Control, Unstarted, TaskAndStack, StackIsNested, ReaderAtPlace,
        Owners, Outer, AtError, AtYield, Finished, Inner
<1>1. CASE ReaderYields
  BY <1>1 DEF ReaderYields, tasks
<1>2. CASE ReaderFinishes("eof", "normal") \/ ReaderFinishes("error", "error")
  BY <1>2 DEF ReaderFinishes, tasks
<1>3. CASE ReaderCancelled
  BY <1>3 DEF ReaderCancelled, tasks
<1>4. CASE TimerFires
  BY <1>4 DEF TimerFires, tasks
<1>5. CASE ClientLeaves
  BY <1>5 DEF ClientLeaves, tasks, keeper
<1>6. CASE FirstStep
  BY <1>6 DEF FirstStep, WaitAgain
<1>7. CASE TakeChunk
  BY <1>7 DEF TakeChunk, HandOver
<1>8. CASE SendKeepalive
  BY <1>8 DEF SendKeepalive, HandOver, keeper
<1>9. CASE TakeEnd
  BY <1>9 DEF TakeEnd
<1>10. CASE TakeError
  BY <1>10 DEF TakeError, HandOver
<1>11. CASE SentChunk
  BY <1>11 DEF SentChunk, WaitAgain
<1>12. CASE SentError
  BY <1>12 DEF SentError, HandOver, keeper
<1>13. CASE SentErrorDone
  BY <1>13 DEF SentErrorDone, keeper
<1>14. CASE SentLast
  BY <1>14 DEF SentLast, keeper
<1>15. CASE SendFails
  BY <1>15 DEF SendFails, keeper
<1>16. CASE CancelledSending
  BY <1>16 DEF CancelledSending, keeper
<1>17. CASE CancelledWaiting
  BY <1>17 DEF CancelledWaiting
<1>18. CASE CancelledWithResult
  BY <1>18 DEF CancelledWithResult
<1>19. CASE CloseDone
  BY <1>19 DEF CloseDone, keeper
<1>20. CASE DisconnectSeen \/ StreamWins \/ DisconnectWins \/ ServerCancels
  BY <1>20 DEF DisconnectSeen, StreamWins, DisconnectWins, ServerCancels, keeper
<1>21. CASE DropUnstarted
  BY <1>21 DEF DropUnstarted, Dropped, tasks, keeper
<1>22. CASE FinalizeWrapper
  BY <1>22, OutermostMeaning DEF FinalizeWrapper, Dropped, tasks, keeper
<1>23. CASE FinalizeHandler
  BY <1>23, OutermostMeaning DEF FinalizeHandler, Dropped, tasks, keeper
<1>24. CASE FinalizeKeepalive
  BY <1>24, OutermostMeaning DEF FinalizeKeepalive, Dropped, tasks
<1>25. CASE KeepaliveClosed
  BY <1>25 DEF KeepaliveClosed, Dropped, tasks, keeper
<1>26. CASE FinalizeUpstream
  BY <1>26, OutermostMeaning DEF FinalizeUpstream, tasks, keeper
<1>27. CASE UNCHANGED vars
  BY <1>27 DEF vars, tasks, keeper
<1>. QED
  BY <1>1, <1>2, <1>3, <1>4, <1>5, <1>6, <1>7, <1>8, <1>9, <1>10, <1>11, <1>12, <1>13,
     <1>14, <1>15, <1>16, <1>17, <1>18, <1>19, <1>20, <1>21, <1>22, <1>23, <1>24, <1>25,
     <1>26, <1>27
     DEF BodyNext, ReaderSteps, SenderSteps, ResponseSteps, FinalizerSteps

-----------------------------------------------------------------------------
\* What one more item does to the chunks that were handed over.
LEMMA OneMoreItem ==
  ASSUME sent \in Seq(BodyItems), NEW item \in BodyItems, sent' = Append(sent, item)
  PROVE  /\ sent' \in Seq(BodyItems)
         /\ \A p \in DOMAIN sent : sent'[p] = sent[p]
         /\ item.kind # "chunk" => ChunkPlaces' = ChunkPlaces /\ Delivered' = Delivered
         /\ item.kind = "chunk" => /\ ChunkPlaces' = ChunkPlaces \cup {Len(sent) + 1}
                                   /\ Delivered' = Delivered \cup {item.n}
                                   /\ sent'[Len(sent) + 1] = item
<1>1. /\ sent' \in Seq(BodyItems) /\ DOMAIN sent = 1..Len(sent) /\ Len(sent) \in Nat
      /\ DOMAIN sent' = 1..(Len(sent) + 1)
      /\ \A p \in DOMAIN sent : sent'[p] = sent[p]
      /\ sent'[Len(sent) + 1] = item
  OBVIOUS
<1>2. ChunkPlaces' = IF item.kind = "chunk" THEN ChunkPlaces \cup {Len(sent) + 1} ELSE ChunkPlaces
  BY <1>1 DEF ChunkPlaces
<1>3. \A p \in ChunkPlaces : sent'[p] = sent[p]
  BY <1>1 DEF ChunkPlaces
<1>4. Delivered' = IF item.kind = "chunk" THEN Delivered \cup {item.n} ELSE Delivered
  BY <1>1, <1>2, <1>3 DEF Delivered
<1>. QED
  BY <1>1, <1>2, <1>4

LEMMA RelayInit == BodyInit => Types /\ Relay
<1> SUFFICES ASSUME BodyInit PROVE Types /\ Relay
  OBVIOUS
<1>1. ChunkPlaces = {} /\ Delivered = {}
  BY DEF BodyInit, ChunkPlaces, Delivered
<1>2. 1..0 = {}
  OBVIOUS
<1>. QED
  BY <1>1, <1>2 DEF BodyInit, Types, Relay, HandedOver, BodyItems

\* A step that hands nothing over, and after which as many chunks wait.
LEMMA NothingHandedOver ==
  ASSUME Relay, UNCHANGED <<sent, made>>, reader' = "chunk" <=> reader = "chunk"
  PROVE  Relay'
<1>1. ChunkPlaces' = ChunkPlaces /\ Delivered' = Delivered
  BY DEF ChunkPlaces, Delivered
<1>. QED
  BY <1>1 DEF Relay, HandedOver

LEMMA RelayStep == BodyInv /\ [BodyNext]_vars => Types' /\ Relay'
<1> SUFFICES ASSUME BodyInv, [BodyNext]_vars PROVE Types' /\ Relay'
  OBVIOUS
<1> USE DEF BodyInv, Types
<1>1. alive' \subseteq Range(Stack)
  <2> USE StackMembers
  <2>1. CASE ReaderSteps \/ ReaderCancelled \/ TimerFires \/ ClientLeaves
    BY <2>1 DEF ReaderSteps, ReaderYields, ReaderFinishes, ReaderCancelled, TimerFires, ClientLeaves
  <2>2. CASE SenderSteps \/ SendFails
    BY <2>2 DEF SenderSteps, FirstStep, TakeChunk, SendKeepalive, TakeEnd, TakeError, SentChunk,
       SentError, SentErrorDone, SentLast, SendFails, CancelledSending, CancelledWaiting,
       CancelledWithResult, CloseDone
  <2>3. CASE ResponseSteps \/ ServerCancels \/ FinalizerSteps \/ UNCHANGED vars
    BY <2>3 DEF ResponseSteps, DisconnectSeen, StreamWins, DisconnectWins, ServerCancels,
       FinalizerSteps, DropUnstarted, FinalizeWrapper, FinalizeHandler, FinalizeKeepalive,
       KeepaliveClosed, FinalizeUpstream, vars
  <2>. QED
    BY <2>1, <2>2, <2>3 DEF BodyNext
<1>2. CASE ReaderYields
  <2>1. made' = made + 1 /\ reader = "reading" /\ reader' = "chunk" /\ sent' = sent
    BY <1>2 DEF ReaderYields
  <2>2. ChunkPlaces' = ChunkPlaces /\ Delivered' = Delivered
    BY <2>1 DEF ChunkPlaces, Delivered
  <2>. QED
    BY <1>1, <2>1, <2>2 DEF Relay, HandedOver
<1>3. CASE TakeChunk
  <2>1. /\ sent' = Append(sent, Chunk(made)) /\ reader = "chunk" /\ reader' = "taken"
        /\ made' = made /\ Chunk(made) \in BodyItems /\ Chunk(made).kind = "chunk"
        /\ Chunk(made).n = made
    BY <1>3 DEF TakeChunk, HandOver, Chunk, BodyItems
  <2>2. /\ made > 0 /\ Delivered = 1..(made - 1)
    BY <2>1 DEF Relay, HandedOver
  <2>3. /\ sent' \in Seq(BodyItems) /\ \A p \in DOMAIN sent : sent'[p] = sent[p]
        /\ ChunkPlaces' = ChunkPlaces \cup {Len(sent) + 1}
        /\ Delivered' = Delivered \cup {made} /\ sent'[Len(sent) + 1].n = made
    BY <2>1, OneMoreItem
  <2>4. Delivered' = 1..made
    BY <2>2, <2>3
  <2>5. \A p \in ChunkPlaces : p \in DOMAIN sent /\ p < Len(sent) + 1 /\ sent[p].n < made
    <3>1. DOMAIN sent = 1..Len(sent) /\ Len(sent) \in Nat
      OBVIOUS
    <3>2. \A p \in ChunkPlaces : p \in DOMAIN sent /\ sent[p].n \in 1..(made - 1)
      BY <2>2 DEF ChunkPlaces, Delivered
    <3>. QED
      BY <3>1, <3>2
  <2>6. \A p, q \in ChunkPlaces' : p < q => sent'[p].n < sent'[q].n
    BY <2>3, <2>5 DEF Relay
  <2>. QED
    BY <1>1, <2>1, <2>3, <2>4, <2>6 DEF Relay, HandedOver
<1>4. ASSUME NEW item \in BodyItems, item.kind # "chunk", sent' = Append(sent, item),
             made' = made, reader' = reader
      PROVE  Types' /\ Relay'
  <2>1. /\ sent' \in Seq(BodyItems) /\ \A p \in DOMAIN sent : sent'[p] = sent[p]
        /\ ChunkPlaces' = ChunkPlaces /\ Delivered' = Delivered
    BY <1>4, OneMoreItem
  <2>2. \A p \in ChunkPlaces : p \in DOMAIN sent
    BY DEF ChunkPlaces
  <2>. QED
    BY <1>1, <1>4, <2>1, <2>2 DEF Relay, HandedOver
<1>5. CASE SendKeepalive
  BY <1>4, <1>5 DEF SendKeepalive, HandOver, Marker, BodyItems, keeper
<1>6. CASE TakeError
  BY <1>4, <1>6 DEF TakeError, HandOver, Marker, BodyItems
<1>7. CASE SentError
  BY <1>4, <1>7 DEF SentError, HandOver, Marker, BodyItems, keeper
<1>8. ASSUME UNCHANGED <<sent, made>>, reader' = "chunk" <=> reader = "chunk"
      PROVE  Types' /\ Relay'
  BY <1>1, <1>8, NothingHandedOver
<1>9. CASE FirstStep
  BY <1>8, <1>9 DEF FirstStep, WaitAgain, Unstarted, TaskAndStack
<1>10. CASE SentChunk
  BY <1>8, <1>10 DEF SentChunk, WaitAgain, ReaderAtPlace
<1>11. CASE TakeEnd \/ SentErrorDone \/ SentLast \/ SendFails \/ CancelledSending
            \/ CancelledWaiting \/ CancelledWithResult \/ CloseDone
  BY <1>8, <1>11 DEF TakeEnd, SentErrorDone, SentLast, SendFails, CancelledSending,
     CancelledWaiting, CancelledWithResult, CloseDone, keeper
<1>12. CASE \/ ReaderFinishes("eof", "normal") \/ ReaderFinishes("error", "error")
            \/ ReaderCancelled \/ TimerFires \/ ClientLeaves
  BY <1>8, <1>12 DEF ReaderFinishes, ReaderCancelled, TimerFires, ClientLeaves, keeper
<1>13. CASE ResponseSteps \/ ServerCancels \/ FinalizerSteps \/ UNCHANGED vars
  BY <1>8, <1>13 DEF ResponseSteps, DisconnectSeen, StreamWins, DisconnectWins, ServerCancels,
     FinalizerSteps, DropUnstarted, FinalizeWrapper, FinalizeHandler, FinalizeKeepalive,
     KeepaliveClosed, FinalizeUpstream, vars, keeper
<1>. QED
  BY <1>2, <1>3, <1>5, <1>6, <1>7, <1>9, <1>10, <1>11, <1>12, <1>13
     DEF BodyNext, ReaderSteps, SenderSteps

-----------------------------------------------------------------------------
\* The inductive invariant of the streamed body, for every number of chunks.
THEOREM BodyInvariant == BodySpec => []BodyInv
<1>1. BodyInit => BodyInv
  BY ControlInit, RelayInit DEF Control, BodyInv
<1>2. BodyInv /\ [BodyNext]_vars => BodyInv'
  BY ControlStep, RelayStep DEF Control, BodyInv, Types
<1>. QED
  BY <1>1, <1>2, PTL DEF BodySpec

\* Every chunk of the pipeline reaches the client once and in order, and the
\* reader is never more than one chunk ahead.
THEOREM ChunksRelayedOnce == BodySpec => []RelayedOnce
<1>1. BodyInv => RelayedOnce
  BY DEF BodyInv, Types, ReaderAtPlace, Relay, HandedOver, RelayedOnce
<1>. QED
  BY <1>1, BodyInvariant, PTL

\* When the stack is closed nothing of it is left: no reader, no timer, no open
\* upstream, no slot, and the handler has reported.
THEOREM StackClosesAll == BodySpec => []NothingLeftBehind
<1>1. BodyInv => NothingLeftBehind
  BY DEF BodyInv, Owners, NothingLeftBehind
<1>. QED
  BY <1>1, BodyInvariant, PTL

-----------------------------------------------------------------------------
LEMMA StagesInit == BodyInit => Stages!Init
<1> SUFFICES ASSUME BodyInit PROVE Stages!Init
  OBVIOUS
<1>1. StageOf = "wrapped"
  BY StackMembers DEF BodyInit, StageOf
<1>. QED
  BY <1>1 DEF BodyInit, Stages!Init

\* The stage, by the place of the stream task and the outer generator.
StageKnown ==
  /\ pos = "unstarted" /\ alive # {} => StageOf = "wrapped"
  /\ "wrapper" \notin alive /\ (pos = "unstarted" => alive = {}) => StageOf = "over"
  /\ sender = "reading" => StageOf = "streaming"
  /\ sender = "sending" /\ pos \in AtYield => StageOf = "yielding"
  /\ sender = "sending" /\ pos \in AtError => StageOf = "reporting"
  /\ sender \in Finished /\ pos # "unstarted" /\ "wrapper" \in alive => StageOf = "orphaned"

LEMMA StagesKnown == BodyInv => StageKnown
<1> SUFFICES ASSUME BodyInv PROVE StageKnown
  OBVIOUS
<1> USE StackMembers DEF BodyInv, Unstarted, TaskAndStack, Outer, AtError, AtYield, Finished
<1>1. CASE pos = "unstarted" /\ alive # {}
  BY <1>1 DEF StageKnown, StageOf
<1>2. CASE "wrapper" \notin alive /\ (pos = "unstarted" => alive = {})
  BY <1>2 DEF StageKnown, StageOf
<1>3. CASE "wrapper" \in alive /\ pos # "unstarted"
  BY <1>3 DEF StageKnown, StageOf
<1>. QED
  BY <1>1, <1>2, <1>3

LEMMA StagesStep == BodyInv /\ BodyInv' /\ [BodyNext]_vars => [Stages!Next]_(Stages!vars)
<1> SUFFICES ASSUME BodyInv, BodyInv', [BodyNext]_vars PROVE [Stages!Next]_(Stages!vars)
  OBVIOUS
<1>1. StageKnown /\ StageKnown'
  <2>1. (BodyInv => StageKnown)'
    BY StagesKnown, PTL
  <2>. QED
    BY <2>1, StagesKnown
<1>2. ASSUME UNCHANGED <<pos, alive, sender, slot>> PROVE UNCHANGED (Stages!vars)
  BY <1>2 DEF StageOf, Stages!vars, Finished
<1> USE <1>1, StackMembers DEF BodyInv, Types, Unstarted, TaskAndStack, Owners, Outer, AtError,
        AtYield, Finished, Inner, StageKnown
<1>3. CASE ReaderSteps \/ ReaderCancelled
  <2>1. /\ UNCHANGED <<pos, sender, slot>> /\ reader \in {"reading", "cancelling"}
        /\ "wrapper" \in alive' <=> "wrapper" \in alive
    BY <1>3 DEF ReaderSteps, ReaderYields, ReaderFinishes, ReaderCancelled, tasks
  <2>2. pos # "unstarted"
    BY <2>1
  <2>3. StageOf' = StageOf
    BY <2>1, <2>2 DEF StageOf
  <2>. QED
    BY <2>1, <2>3 DEF Stages!vars
<1>4. CASE TimerFires \/ ClientLeaves \/ ResponseSteps \/ ServerCancels \/ UNCHANGED vars
  BY <1>2, <1>4 DEF TimerFires, ClientLeaves, ResponseSteps, DisconnectSeen, StreamWins,
     DisconnectWins, ServerCancels, tasks, keeper, vars
<1>5. CASE FirstStep
  BY <1>5 DEF FirstStep, WaitAgain, Stages!Next, Stages!Iterate, Stages!Move
<1>6. CASE TakeChunk \/ SendKeepalive
  BY <1>6 DEF TakeChunk, SendKeepalive, HandOver, keeper, Stages!Next, Stages!Yield, Stages!Move
<1>7. CASE TakeEnd \/ SentErrorDone \/ CancelledWithResult \/ CloseDone
  <2>1. StageOf \in {"streaming", "reporting"} /\ StageOf' = "over" /\ slot' = "free"
    BY <1>7 DEF TakeEnd, SentErrorDone, CancelledWithResult, CloseDone, keeper
  <2>. QED
    BY <2>1 DEF Stages!Next, Stages!Close, Stages!Move
<1>8. CASE TakeError
  BY <1>8 DEF TakeError, HandOver, Stages!Next, Stages!Fail, Stages!Move
<1>9. CASE SentChunk
  BY <1>9 DEF SentChunk, WaitAgain, Stages!Next, Stages!Sent, Stages!Move
<1>10. CASE SentError \/ SentLast \/ CancelledWaiting
  <2>1. StageOf' = StageOf /\ slot' = slot
    BY <1>10 DEF SentError, SentLast, CancelledWaiting, HandOver, keeper
  <2>. QED
    BY <2>1 DEF Stages!vars
<1>11. CASE SendFails \/ CancelledSending
  <2>1. /\ UNCHANGED <<pos, alive, slot>> /\ sender' \in Finished
        /\ sender \in {"starting", "sending", "last"}
    BY <1>11 DEF SendFails, CancelledSending
  <2>2. CASE sender = "sending"
    BY <2>1, <2>2 DEF Stages!Next, Stages!Abandon, Stages!Move
  <2>3. CASE sender # "sending"
    <3>1. StageOf' = StageOf
      BY <2>1, <2>3
    <3>. QED
      BY <2>1, <3>1 DEF Stages!vars
  <2>. QED
    BY <2>2, <2>3
<1>12. CASE DropUnstarted
  BY <1>12 DEF DropUnstarted, Dropped, tasks, keeper, Stages!Next, Stages!Discard, Stages!Move
<1>13. CASE FinalizeWrapper
  <2>1. StageOf = "orphaned" /\ StageOf' = "over" /\ slot' = "free"
    BY <1>13, OutermostMeaning DEF FinalizeWrapper, Dropped, tasks
  <2>. QED
    BY <2>1 DEF Stages!Next, Stages!Close, Stages!Move
<1>14. CASE FinalizeHandler \/ FinalizeKeepalive \/ KeepaliveClosed \/ FinalizeUpstream
  <2>1. /\ "wrapper" \notin alive /\ "wrapper" \notin alive' /\ slot' = slot
        /\ pos # "unstarted" /\ pos' # "unstarted"
    BY <1>14, OutermostMeaning DEF FinalizeHandler, FinalizeKeepalive, KeepaliveClosed,
       FinalizeUpstream, Dropped, tasks, keeper
  <2>2. StageOf = "over" /\ StageOf' = "over"
    BY <2>1
  <2>. QED
    BY <2>1, <2>2 DEF Stages!vars
<1>. QED
  BY <1>3, <1>4, <1>5, <1>6, <1>7, <1>8, <1>9, <1>10, <1>11, <1>12, <1>13, <1>14
     DEF BodyNext, SenderSteps, FinalizerSteps

\* The generators, tasks and finalizers implement the stages that
\* RequestLifecycle makes of a stream, and give the slot back as they do.
THEOREM BodyImplementsStages == BodySpec => ImplementsStages
BY StagesInit, StagesStep, BodyInvariant, PTL DEF BodySpec, ImplementsStages, Stages!Spec

-----------------------------------------------------------------------------
(* The runner.                                                             *)

Kinds == {"text", "tool", "fallback"}
Items == [kind : Kinds, attempt : Nat, n : Nat]

Fields == {"state", "attempt", "frames", "nudges", "stops", "finish", "barrier", "hasTool",
           "emitted", "held", "text", "sawTool", "repeats", "more", "late", "buffer", "tools",
           "made", "sent", "ledger"}

Typed(s) ==
  /\ DOMAIN s = Fields /\ s.state = "reading"
  /\ s.attempt \in Nat /\ s.frames \in Nat /\ s.nudges \in Nat /\ s.stops \in Nat
  /\ s.finish \in Reasons \cup {"none"}
  /\ s.barrier \in BOOLEAN /\ s.hasTool \in BOOLEAN /\ s.sawTool \in BOOLEAN
  /\ s.repeats \in BOOLEAN /\ s.more = FALSE /\ s.late = FALSE
  /\ s.buffer \in Seq(Items) /\ s.tools \in Seq(Items) /\ s.sent \in Seq(Items)
  /\ s.made \subseteq Items /\ s.ledger \in Seq(Nat)

In(q, i) == \E p \in DOMAIN q : q[p] = i
InOrder(q) == \A i, j \in DOMAIN q : i < j /\ q[i].kind = q[j].kind => Precedes(q[i], q[j])

\* The attempts are the recoveries so far, within the budgets, each entered.
Counted(s) == /\ s.attempt = s.nudges + s.stops
              /\ s.nudges <= MaxNudges /\ s.stops <= MaxStops /\ s.attempt <= MaxGlobal
              /\ Len(s.ledger) = s.attempt
              /\ \A k \in 1 .. s.attempt : s.ledger[k] = k - 1

\* Nothing is held behind the barrier, nor in a chain that holds nothing; the
\* live stopper holds calls and no text.
HeldBack(s) == /\ s.barrier => s.finish # "none"
               /\ s.barrier \/ ~HoldsOutput => s.buffer = <<>>
               /\ s.barrier \/ ~(HoldsOutput \/ Live) => s.tools = <<>>

\* The tool-call flag tells of a call that was sent; a sent call that was not
\* overtaken is of this attempt and flagged; and the nudge knows of the calls.
Flagged(s) ==
  /\ s.hasTool => \E p \in DOMAIN s.sent : s.sent[p].kind = "tool"
  /\ \A p \in DOMAIN s.sent : s.sent[p].kind = "tool" /\ s.sent[p] \in s.made =>
       s.attempt = s.sent[p].attempt /\ s.hasTool /\ (s.barrier \/ s.sawTool)
  /\ s.tools # <<>> => s.sawTool

\* What is held is of this attempt, in the order it was made.
HeldOf(s, q, k) == /\ InOrder(q)
                   /\ \A p \in DOMAIN q : /\ q[p] \in s.made /\ q[p].kind = k
                                          /\ q[p].attempt = s.attempt /\ q[p].n <= s.frames

\* Held calls come after every call that was sent.
Behind(s) == \A p \in DOMAIN s.sent, q \in DOMAIN s.tools :
  s.sent[p].kind = "tool" => Precedes(s.sent[p], s.tools[q])

\* Output that is part of the answer, or that a live chain could not take back.
Kept(s, i) == \/ i \in s.made
              \/ Live /\ \/ i.kind = "text"
                         \/ \E j \in s.made : j.kind = "fallback" /\ j.attempt = i.attempt

\* What is sent was made, and is taken back at most by a live chain's restart;
\* before the barrier nothing of this attempt is sent by a chain that holds
\* output.
SentSoFar(s) ==
  /\ InOrder(s.sent)
  /\ \A p \in DOMAIN s.sent :
       /\ Kept(s, s.sent[p]) /\ s.sent[p].attempt <= s.attempt
       /\ s.sent[p].attempt = s.attempt =>
            /\ s.sent[p] \in s.made /\ s.sent[p].n <= s.frames
            /\ s.sent[p].kind # "fallback" /\ (s.barrier \/ ~HoldsOutput)

\* What was made is sent or held, or of an earlier attempt that was held back,
\* or a call held beside a repeat when there was no budget left.
Forgone(s, i) ==
  \/ HoldsOutput /\ i.attempt < s.attempt /\ i.kind # "fallback"
  \/ Live /\ s.repeats /\ i.kind = "tool" /\ i.attempt = s.attempt /\ s.attempt >= MaxGlobal
Accounted(s) == \A i \in s.made :
  In(s.sent, i) \/ In(s.buffer, i) \/ In(s.tools, i) \/ Forgone(s, i)

Reading(s) ==
  /\ Typed(s)
  /\ Counted(s) /\ HeldBack(s) /\ Flagged(s)
  /\ HeldOf(s, s.buffer, "text") /\ HeldOf(s, s.tools, "tool") /\ Behind(s)
  /\ SentSoFar(s) /\ Accounted(s)

-----------------------------------------------------------------------------
(* Sequences of output.                                                    *)
LEMMA Joined ==
  ASSUME NEW S, NEW q \in Seq(S), NEW r \in Seq(S)
  PROVE  /\ q \o r \in Seq(S) /\ Len(q \o r) = Len(q) + Len(r)
         /\ \A p \in DOMAIN q : p \in DOMAIN (q \o r) /\ (q \o r)[p] = q[p]
         /\ \A p \in DOMAIN r : Len(q) + p \in DOMAIN (q \o r) /\ (q \o r)[Len(q) + p] = r[p]
         /\ \A p \in DOMAIN (q \o r) :
              p \in DOMAIN q \/ (p - Len(q) \in DOMAIN r /\ (q \o r)[p] = r[p - Len(q)])
BY ConcatProperties

LEMMA JoinedInOrder ==
  ASSUME NEW q \in Seq(Items), NEW r \in Seq(Items), InOrder(q), InOrder(r),
         \A i \in DOMAIN q, j \in DOMAIN r : q[i].kind = r[j].kind => Precedes(q[i], r[j])
  PROVE  InOrder(q \o r)
BY Joined DEF InOrder

LEMMA JoinedIn ==
  ASSUME NEW q \in Seq(Items), NEW r \in Seq(Items), NEW i
  PROVE  In(q \o r, i) <=> In(q, i) \/ In(r, i)
<1>1. ASSUME NEW p \in DOMAIN (q \o r), (q \o r)[p] = i PROVE In(q, i) \/ In(r, i)
  <2>1. CASE p \in DOMAIN q
    BY <1>1, <2>1, Joined DEF In
  <2>2. CASE p \notin DOMAIN q
    <3>1. p - Len(q) \in DOMAIN r /\ r[p - Len(q)] = i
      BY <1>1, <2>2, Joined
    <3>. QED
      BY <3>1 DEF In
  <2>. QED
    BY <2>1, <2>2
<1>2. ASSUME NEW p \in DOMAIN q, q[p] = i PROVE In(q \o r, i)
  BY <1>2, Joined DEF In
<1>3. ASSUME NEW p \in DOMAIN r, r[p] = i PROVE In(q \o r, i)
  <2>1. Len(q) + p \in DOMAIN (q \o r) /\ (q \o r)[Len(q) + p] = i
    BY <1>3, Joined
  <2>. QED
    BY <2>1 DEF In
<1>. QED
  BY <1>1, <1>2, <1>3 DEF In

LEMMA OneAndOne == ASSUME NEW x, NEW y PROVE <<x>> \o <<y>> = <<x, y>>
<1>1. <<x>> \in Seq({x, y}) /\ <<y>> \in Seq({x, y}) /\ <<x, y>> \in Seq({x, y})
  OBVIOUS
<1>2. Len(<<x>> \o <<y>>) = 2 /\ <<x>> \o <<y>> \in Seq({x, y})
  BY <1>1, Joined
<1>3. \A p \in 1 .. 2 : (<<x>> \o <<y>>)[p] = <<x, y>>[p]
  BY <1>1
<1>. QED
  BY <1>1, <1>2, <1>3, SeqEqual

LEMMA PlacesOfMore ==
  ASSUME NEW q \in Seq(Items), NEW i \in Items
  PROVE  \A p \in DOMAIN Append(q, i) : Append(q, i)[p] = i
                                     \/ (p \in DOMAIN q /\ Append(q, i)[p] = q[p])
<1> DEFINE t == Append(q, i)
<1>1. /\ DOMAIN q = 1 .. Len(q) /\ Len(q) \in Nat /\ DOMAIN t = 1 .. (Len(q) + 1)
      /\ t[Len(q) + 1] = i /\ \A p \in 1 .. Len(q) : t[p] = q[p]
  OBVIOUS
<1> HIDE DEF t
<1>2. \A p \in DOMAIN t : p \in DOMAIN q \/ p = Len(q) + 1
  BY <1>1
<1>3. \A p \in DOMAIN t : t[p] = i \/ (p \in DOMAIN q /\ t[p] = q[p])
  BY <1>1, <1>2
<1>. QED
  BY <1>3 DEF t

LEMMA OneMore ==
  ASSUME NEW q \in Seq(Items), NEW i \in Items, InOrder(q),
         \A p \in DOMAIN q : q[p].kind = i.kind => Precedes(q[p], i)
  PROVE  InOrder(Append(q, i))
BY DEF InOrder

-----------------------------------------------------------------------------
(* The steps of a reading runner.                                          *)
USE DEF Typed, Fields

\* What is known of an item that was sent, and of one that is held.
LEMMA OfSent ==
  ASSUME NEW s, Reading(s), NEW p \in DOMAIN s.sent
  PROVE  LET i == s.sent[p] IN
         /\ i \in Items /\ i.attempt \in Nat /\ i.n \in Nat /\ i.kind \in Kinds
         /\ Kept(s, i) /\ i.attempt <= s.attempt
         /\ i.attempt = s.attempt =>
              /\ i \in s.made /\ i.n <= s.frames
              /\ i.kind # "fallback" /\ (s.barrier \/ ~HoldsOutput)
         /\ i.kind = "tool" /\ i \in s.made =>
              s.attempt = i.attempt /\ s.hasTool /\ (s.barrier \/ s.sawTool)
<1>1. s.sent[p] \in Items
  BY DEF Reading
<1>2. s.sent[p].attempt \in Nat /\ s.sent[p].n \in Nat /\ s.sent[p].kind \in Kinds
  BY <1>1 DEF Items
<1>3. SentSoFar(s) /\ Flagged(s)
  BY DEF Reading
<1>. QED
  BY <1>1, <1>2, <1>3 DEF SentSoFar, Flagged

LEMMA OfHeld ==
  ASSUME NEW s, Reading(s), NEW i, In(s.buffer, i) \/ In(s.tools, i)
  PROVE  /\ i \in Items /\ i \in s.made /\ i.attempt = s.attempt /\ i.attempt \in Nat
         /\ i.n <= s.frames /\ Kept(s, i) /\ ~s.barrier
         /\ In(s.buffer, i) => i.kind = "text" /\ HoldsOutput
         /\ In(s.tools, i) => i.kind = "tool" /\ s.sawTool
<1>1. /\ s.made \subseteq Items /\ s.attempt \in Nat
      /\ HeldOf(s, s.buffer, "text") /\ HeldOf(s, s.tools, "tool") /\ HeldBack(s) /\ Flagged(s)
  BY DEF Reading
<1>2. In(s.buffer, i) => s.buffer # <<>>
  BY DEF In
<1>3. In(s.tools, i) => s.tools # <<>>
  BY DEF In
<1>4. /\ i \in s.made /\ i.attempt = s.attempt /\ i.n <= s.frames
      /\ In(s.buffer, i) => i.kind = "text"
      /\ In(s.tools, i) => i.kind = "tool"
  BY <1>1 DEF In, HeldOf
<1>. QED
  BY <1>1, <1>2, <1>3, <1>4 DEF HeldBack, Flagged, Kept

\* A frame is counted; everything made so far is of an earlier one.
Newer(s) ==
  /\ \A p \in DOMAIN s.sent : s.sent[p].attempt = s.attempt => s.sent[p].n < s.frames
  /\ \A p \in DOMAIN s.buffer : s.buffer[p].n < s.frames
  /\ \A p \in DOMAIN s.tools : s.tools[p].n < s.frames

LEMMA ParseReads ==
  ASSUME NEW s, Reading(s), NEW f \in Chunks
  PROVE  /\ Reading(Parse(s, f)) /\ Newer(Parse(s, f)) /\ Parse(s, f).barrier = s.barrier
<1> DEFINE t == Parse(s, f)
<1>0. Typed(s) /\ f.finish \in Reasons \cup {"none"}
  BY DEF Reading, Chunks
<1>1. /\ Typed(t) /\ t.frames = s.frames + 1 /\ s.frames \in Nat
      /\ t.finish = "none" => s.finish = "none"
      /\ t.attempt = s.attempt /\ t.nudges = s.nudges /\ t.stops = s.stops
      /\ t.barrier = s.barrier /\ t.hasTool = s.hasTool /\ t.sawTool = s.sawTool
      /\ t.repeats = s.repeats
      /\ t.buffer = s.buffer /\ t.tools = s.tools /\ t.made = s.made /\ t.sent = s.sent
      /\ t.ledger = s.ledger
  BY <1>0 DEF Parse
<1> HIDE DEF t
<1>2. \A q \in {s.sent, s.buffer, s.tools} : q \in Seq(Items) /\ \A p \in DOMAIN q : q[p] \in Items
  BY DEF Reading
<1>3. Counted(t) /\ HeldBack(t) /\ Flagged(t) /\ Behind(t) /\ Accounted(t)
  BY <1>1 DEF Reading, Counted, HeldBack, Flagged, Behind, Accounted, Forgone
<1>4. SentSoFar(t) /\ HeldOf(t, t.buffer, "text") /\ HeldOf(t, t.tools, "tool")
  BY <1>1, <1>2 DEF Reading, SentSoFar, Kept, HeldOf, Items
<1>5. Newer(t)
  BY <1>1, <1>2 DEF Reading, SentSoFar, HeldOf, Newer, Items
<1>. QED
  BY <1>1, <1>3, <1>4, <1>5 DEF Reading, t

LEMMA ObserveReads ==
  ASSUME NEW s, Reading(s), Newer(s), ~s.barrier, NEW d \in Calls \cup {"text"}
  PROVE  Reading(Observe(s, d))
<1> DEFINE i == Item(s, IF d \in Calls THEN "tool" ELSE d)  t == Observe(s, d)
           k == IF d = "text" THEN "text" ELSE "tool"
<1>1. /\ i \in Items /\ i.kind = k /\ i.attempt = s.attempt /\ i.n = s.frames
      /\ d \in Calls <=> k = "tool"
      /\ s.made \subseteq Items /\ s.frames \in Nat /\ s.attempt \in Nat
  BY DEF Item, Items, Kinds, Calls, Reading
<1>2. \A q \in {s.sent, s.buffer, s.tools} : q \in Seq(Items) /\ \A p \in DOMAIN q : q[p] \in Items
  BY DEF Reading
<1>0. Typed(s) /\ k \in {"text", "tool"}
  BY DEF Reading
<1>3. /\ Typed(t) /\ t.attempt = s.attempt /\ t.nudges = s.nudges /\ t.stops = s.stops
      /\ t.frames = s.frames /\ t.finish = s.finish /\ t.barrier = s.barrier
      /\ t.ledger = s.ledger
      /\ t.sawTool = (s.sawTool \/ k = "tool") /\ (s.repeats => t.repeats)
      /\ \/ /\ Live /\ t.made = s.made /\ t.sent = s.sent /\ t.hasTool = s.hasTool
            /\ t.buffer = s.buffer /\ t.tools = s.tools
         \/ /\ HoldsOutput \/ Live
            /\ k = "tool" /\ t.made = s.made \cup {i} /\ t.sent = s.sent /\ t.hasTool = s.hasTool
            /\ t.buffer = s.buffer /\ t.tools = Append(s.tools, i)
         \/ /\ HoldsOutput
            /\ k = "text" /\ t.made = s.made \cup {i} /\ t.sent = s.sent /\ t.hasTool = s.hasTool
            /\ t.buffer = Append(s.buffer, i) /\ t.tools = s.tools
         \/ /\ ~HoldsOutput /\ (k = "tool" => s.tools = <<>>)
            /\ t.made = s.made \cup {i} /\ t.sent = Append(s.sent, i)
            /\ t.hasTool = (s.hasTool \/ k = "tool")
            /\ t.buffer = s.buffer /\ t.tools = s.tools
  <2> USE <1>0, <1>1 DEF Observe
  <2> DEFINE kept == [s EXCEPT !.text = @ \/ d = "text", !.sawTool = @ \/ d \in Calls,
                               !.made = @ \cup {i}, !.tools = Append(@, i), !.held = TRUE]
  <2>1. CASE /\ d \in Calls
             /\ HoldsOutput \/ (Live /\ d # "repeat" /\ Undecided(s, d))
    <3>1. t = kept
      BY <2>1
    <3>2. k = "tool" /\ (HoldsOutput \/ Live)
      BY <2>1 DEF Calls
    <3>3. /\ DOMAIN kept = Fields /\ kept.state = s.state /\ kept.frames = s.frames
          /\ kept.attempt = s.attempt /\ kept.nudges = s.nudges /\ kept.stops = s.stops
          /\ kept.finish = s.finish /\ kept.barrier = s.barrier /\ kept.ledger = s.ledger
          /\ kept.repeats = s.repeats /\ kept.more = s.more /\ kept.late = s.late
          /\ kept.buffer = s.buffer /\ kept.tools = Append(s.tools, i) /\ kept.sent = s.sent
          /\ kept.made = s.made \cup {i} /\ kept.hasTool = s.hasTool
          /\ kept.sawTool = (s.sawTool \/ d \in Calls)
      OBVIOUS
    <3> HIDE DEF kept, i, k
    <3>4. Append(s.tools, i) \in Seq(Items) /\ s.made \cup {i} \subseteq Items
      OBVIOUS
    <3> HIDE DEF t
    <3>5. /\ DOMAIN t = Fields /\ t.state = s.state /\ t.frames = s.frames
          /\ t.attempt = s.attempt /\ t.nudges = s.nudges /\ t.stops = s.stops
          /\ t.finish = s.finish /\ t.barrier = s.barrier /\ t.ledger = s.ledger
          /\ t.repeats = s.repeats /\ t.more = s.more /\ t.late = s.late
          /\ t.buffer = s.buffer /\ t.tools = Append(s.tools, i) /\ t.sent = s.sent
          /\ t.made = s.made \cup {i} /\ t.hasTool = s.hasTool
          /\ t.sawTool = (s.sawTool \/ k = "tool")
      BY ONLY <1>1, <3>1, <3>3
    <3>6. Typed(t)
      BY ONLY <1>0, <3>4, <3>5
    <3>. QED
      BY ONLY <3>2, <3>5, <3>6
  <2>2. CASE HoldsOutput /\ d \notin Calls
    <3> DEFINE waits == [s EXCEPT !.text = @ \/ d = "text", !.sawTool = @ \/ d \in Calls,
                                  !.made = @ \cup {i}, !.emitted = TRUE,
                                  !.hasTool = @ \/ d \in Calls, !.buffer = Append(@, i)]
    <3>1. t = waits
      BY <2>2
    <3>2. k = "text" /\ HoldsOutput
      BY <2>2
    <3>3. /\ DOMAIN waits = Fields /\ waits.state = s.state /\ waits.frames = s.frames
          /\ waits.attempt = s.attempt /\ waits.nudges = s.nudges /\ waits.stops = s.stops
          /\ waits.finish = s.finish /\ waits.barrier = s.barrier /\ waits.ledger = s.ledger
          /\ waits.repeats = s.repeats /\ waits.more = s.more /\ waits.late = s.late
          /\ waits.buffer = Append(s.buffer, i) /\ waits.tools = s.tools /\ waits.sent = s.sent
          /\ waits.made = s.made \cup {i} /\ waits.sawTool = (s.sawTool \/ d \in Calls)
          /\ waits.hasTool = (s.hasTool \/ d \in Calls)
      OBVIOUS
    <3> HIDE DEF waits, i, k
    <3>4. Append(s.buffer, i) \in Seq(Items) /\ s.made \cup {i} \subseteq Items
      OBVIOUS
    <3> HIDE DEF t
    <3>5. /\ DOMAIN t = Fields /\ t.state = s.state /\ t.frames = s.frames
          /\ t.attempt = s.attempt /\ t.nudges = s.nudges /\ t.stops = s.stops
          /\ t.finish = s.finish /\ t.barrier = s.barrier /\ t.ledger = s.ledger
          /\ t.repeats = s.repeats /\ t.more = s.more /\ t.late = s.late
          /\ t.buffer = Append(s.buffer, i) /\ t.tools = s.tools /\ t.sent = s.sent
          /\ t.made = s.made \cup {i} /\ t.hasTool = s.hasTool
          /\ t.sawTool = (s.sawTool \/ k = "tool")
      BY ONLY <1>0, <1>1, <2>2, <3>1, <3>2, <3>3
    <3>6. Typed(t)
      BY ONLY <1>0, <3>4, <3>5
    <3>. QED
      BY ONLY <3>2, <3>5, <3>6
  <2>3. CASE ~HoldsOutput /\ Live /\ d = "repeat"
    BY <2>3 DEF Calls
  <2>4. CASE ~HoldsOutput /\ ~(Live /\ d = "repeat") /\ ~(Live /\ d \in Calls /\ Undecided(s, d))
    <3>1. d \in Calls => s.tools = <<>>
      BY <2>4 DEF Undecided, Reading, HeldBack
    <3> DEFINE passed == [s EXCEPT !.text = @ \/ d = "text", !.sawTool = @ \/ d \in Calls,
                                   !.made = @ \cup {i}, !.emitted = TRUE,
                                   !.hasTool = @ \/ d \in Calls]
    <3>2. t = [passed EXCEPT !.sent = Append(@, i)]
      BY <2>4
    <3>3. /\ DOMAIN passed = Fields /\ passed.state = s.state /\ passed.frames = s.frames
          /\ passed.attempt = s.attempt /\ passed.nudges = s.nudges /\ passed.stops = s.stops
          /\ passed.finish = s.finish /\ passed.barrier = s.barrier /\ passed.ledger = s.ledger
          /\ passed.repeats = s.repeats /\ passed.more = s.more /\ passed.late = s.late
          /\ passed.buffer = s.buffer /\ passed.tools = s.tools /\ passed.sent = s.sent
          /\ passed.made = s.made \cup {i} /\ passed.sawTool = (s.sawTool \/ k = "tool")
          /\ passed.hasTool = (s.hasTool \/ k = "tool")
      OBVIOUS
    <3> HIDE DEF passed, i, k
    <3>4. Append(s.sent, i) \in Seq(Items) /\ s.made \cup {i} \subseteq Items
      OBVIOUS
    <3> HIDE DEF t
    <3>5. /\ DOMAIN t = Fields /\ t.state = s.state /\ t.frames = s.frames
          /\ t.attempt = s.attempt /\ t.nudges = s.nudges /\ t.stops = s.stops
          /\ t.finish = s.finish /\ t.barrier = s.barrier /\ t.ledger = s.ledger
          /\ t.repeats = s.repeats /\ t.more = s.more /\ t.late = s.late
          /\ t.buffer = s.buffer /\ t.tools = s.tools /\ t.sent = Append(s.sent, i)
          /\ t.made = s.made \cup {i} /\ t.sawTool = (s.sawTool \/ k = "tool")
          /\ t.hasTool = (s.hasTool \/ k = "tool")
      BY ONLY <3>2, <3>3
    <3>6. Typed(t)
      BY ONLY <1>0, <3>4, <3>5
    <3>. QED
      BY ONLY <1>1, <2>4, <3>1, <3>5, <3>6
  <2>. QED
    BY <2>1, <2>2, <2>3, <2>4
<1> HIDE DEF i, t, k
<1>4. Counted(t) /\ HeldBack(t)
  BY <1>2, <1>3 DEF Reading, Counted, HeldBack
<1>10. ASSUME NEW p \in DOMAIN s.sent PROVE Precedes(s.sent[p], i) /\ s.sent[p] # i
  <2>1. s.sent[p].attempt = s.attempt => s.sent[p].n < s.frames
    BY DEF Newer
  <2>. QED
    BY <1>1, <2>1, OfSent DEF Precedes
<1>11. /\ \A p \in DOMAIN t.sent :
             \/ p \in DOMAIN s.sent /\ t.sent[p] = s.sent[p]
             \/ ~HoldsOutput /\ t.sent[p] = i /\ i \in t.made /\ (k = "tool" => t.hasTool)
       /\ \A p \in DOMAIN s.sent : p \in DOMAIN t.sent /\ t.sent[p] = s.sent[p]
       /\ t.hasTool => s.hasTool \/ (In(t.sent, i) /\ k = "tool")
  <2>1. CASE t.sent = s.sent
    BY <1>3, <2>1
  <2>2. CASE t.sent # s.sent
    <3>1. /\ t.sent = Append(s.sent, i) /\ i \in t.made /\ ~HoldsOutput
          /\ t.hasTool = (s.hasTool \/ k = "tool")
      BY <1>3, <2>2
    <3>2. /\ Len(s.sent) + 1 \in DOMAIN t.sent /\ t.sent[Len(s.sent) + 1] = i
          /\ \A p \in DOMAIN s.sent : p \in DOMAIN t.sent /\ t.sent[p] = s.sent[p]
          /\ \A p \in DOMAIN t.sent : p \in DOMAIN s.sent \/ p = Len(s.sent) + 1
      BY <1>1, <1>2, <3>1
    <3>. QED
      BY <3>1, <3>2 DEF In
  <2>. QED
    BY <2>1, <2>2
<1>12. s.made \subseteq t.made /\ t.made \subseteq s.made \cup {i} /\ (s.hasTool => t.hasTool)
  BY <1>3
<1>5. Flagged(t)
  <2>1. t.hasTool => \E p \in DOMAIN t.sent : t.sent[p].kind = "tool"
    BY <1>1, <1>11 DEF Reading, Flagged, In
  <2>2. ASSUME NEW p \in DOMAIN t.sent, t.sent[p].kind = "tool", t.sent[p] \in t.made
        PROVE  t.attempt = t.sent[p].attempt /\ t.hasTool /\ t.sawTool
    <3>1. CASE p \in DOMAIN s.sent /\ t.sent[p] = s.sent[p]
      BY <1>3, <1>10, <1>12, <2>2, <3>1 DEF Reading, Flagged
    <3>2. CASE t.sent[p] = i /\ (k = "tool" => t.hasTool)
      BY <1>1, <1>3, <2>2, <3>2
    <3>. QED
      BY <1>11, <2>2, <3>1, <3>2
  <2>3. t.tools # <<>> => t.sawTool
    BY <1>3 DEF Reading, Flagged
  <2>. QED
    BY <2>1, <2>2, <2>3 DEF Flagged
<1>6. HeldOf(t, t.buffer, "text")
  <2>1. CASE t.buffer = s.buffer
    BY <1>3, <1>12, <2>1 DEF Reading, HeldOf
  <2>2. CASE t.buffer = Append(s.buffer, i) /\ k = "text" /\ i \in t.made
    <3>0. InOrder(s.buffer) /\ \A p \in DOMAIN s.buffer : Precedes(s.buffer[p], i)
      BY <1>1 DEF Reading, HeldOf, Newer, Precedes
    <3>1. InOrder(t.buffer)
      BY <1>1, <1>2, <2>2, <3>0, OneMore
    <3>2. \A p \in DOMAIN t.buffer : t.buffer[p] = i \/ (p \in DOMAIN s.buffer /\ t.buffer[p] = s.buffer[p])
      <4>1. s.buffer \in Seq(Items) /\ i \in Items
        BY <1>1, <1>2
      <4>. QED
        BY <2>2, <4>1, PlacesOfMore
    <3>. QED
      BY <1>1, <1>3, <1>12, <2>2, <3>1, <3>2 DEF Reading, HeldOf
  <2>. QED
    BY <1>3, <2>1, <2>2
<1>7. HeldOf(t, t.tools, "tool")
  <2>1. CASE t.tools = s.tools
    BY <1>3, <1>12, <2>1 DEF Reading, HeldOf
  <2>2. CASE t.tools = Append(s.tools, i) /\ k = "tool" /\ i \in t.made
    <3>0. InOrder(s.tools) /\ \A p \in DOMAIN s.tools : Precedes(s.tools[p], i)
      BY <1>1 DEF Reading, HeldOf, Newer, Precedes
    <3>1. InOrder(t.tools)
      BY <1>1, <1>2, <2>2, <3>0, OneMore
    <3>2. \A p \in DOMAIN t.tools : t.tools[p] = i \/ (p \in DOMAIN s.tools /\ t.tools[p] = s.tools[p])
      <4>1. s.tools \in Seq(Items) /\ i \in Items
        BY <1>1, <1>2
      <4>. QED
        BY <2>2, <4>1, PlacesOfMore
    <3>. QED
      BY <1>1, <1>3, <1>12, <2>2, <3>1, <3>2 DEF Reading, HeldOf
  <2>. QED
    BY <1>3, <2>1, <2>2
<1>13. Behind(t)
  <2>1. CASE t.tools = <<>>
    BY <2>1 DEF Behind
  <2>2. CASE t.sent = s.sent /\ t.tools \in {s.tools, Append(s.tools, i)}
    <3>1. \A q \in DOMAIN t.tools : t.tools[q] = i \/ (q \in DOMAIN s.tools /\ t.tools[q] = s.tools[q])
      <4>1. s.tools \in Seq(Items) /\ i \in Items
        BY <1>1, <1>2
      <4>2. CASE t.tools = s.tools
        BY <4>2
      <4>3. CASE t.tools = Append(s.tools, i)
        BY <4>1, <4>3, PlacesOfMore
      <4>. QED
        BY <2>2, <4>2, <4>3
    <3>. QED
      BY <1>10, <2>2, <3>1 DEF Reading, Behind
  <2>3. CASE k = "text" /\ t.tools = s.tools
    BY <1>1, <1>11, <2>3 DEF Reading, Behind
  <2>. QED
    BY <1>0, <1>3, <2>1, <2>2, <2>3
<1>8. SentSoFar(t)
  <2>1. InOrder(t.sent)
    <3>1. t.sent \in {s.sent, Append(s.sent, i)}
      BY <1>3
    <3>. QED
      BY <1>1, <1>2, <1>10, <3>1, OneMore DEF Reading, SentSoFar
  <2>2. ASSUME NEW p \in DOMAIN t.sent
        PROVE  /\ Kept(t, t.sent[p]) /\ t.sent[p].attempt <= t.attempt
               /\ t.sent[p].attempt = t.attempt =>
                    /\ t.sent[p] \in t.made /\ t.sent[p].n <= t.frames
                    /\ t.sent[p].kind # "fallback" /\ (t.barrier \/ ~HoldsOutput)
    <3>1. CASE p \in DOMAIN s.sent /\ t.sent[p] = s.sent[p]
      BY <1>3, <1>12, <3>1 DEF Reading, SentSoFar, Kept
    <3>2. CASE ~HoldsOutput /\ t.sent[p] = i /\ i \in t.made
      BY <1>0, <1>1, <1>3, <3>2 DEF Kept
    <3>. QED
      BY <1>11, <3>1, <3>2
  <2>. QED
    BY <2>1, <2>2 DEF SentSoFar
<1>9. Accounted(t)
  <2>1. ASSUME NEW q \in Seq(Items), NEW j
        PROVE  In(Append(q, i), i) /\ (In(q, j) => In(Append(q, i), j))
    <3>1. Append(q, i)[Len(q) + 1] = i /\ Len(q) + 1 \in DOMAIN Append(q, i)
      BY <1>1
    <3>2. \A p \in DOMAIN q : p \in DOMAIN Append(q, i) /\ Append(q, i)[p] = q[p]
      BY <1>1
    <3>. QED
      BY <3>1, <3>2 DEF In
  <2>2. \A j : Forgone(s, j) => Forgone(t, j)
    BY <1>3 DEF Forgone
  <2>3. ASSUME NEW j \in t.made
        PROVE  In(t.sent, j) \/ In(t.buffer, j) \/ In(t.tools, j) \/ Forgone(t, j)
    <3>1. CASE j \in s.made
      <4>1. In(s.sent, j) \/ In(s.buffer, j) \/ In(s.tools, j) \/ Forgone(t, j)
        BY <2>2, <3>1 DEF Reading, Accounted
      <4>. QED
        BY <1>2, <1>3, <2>1, <4>1
    <3>2. CASE j = i /\ j \notin s.made
      BY <1>2, <1>3, <2>1, <3>2
    <3>. QED
      BY <1>12, <3>1, <3>2
  <2>. QED
    BY <2>3 DEF Accounted
<1>. QED
  BY <1>3, <1>4, <1>5, <1>6, <1>7, <1>8, <1>9, <1>13 DEF Reading, t

LEMMA AbsorbReads ==
  ASSUME NEW s, Reading(s), NEW f \in Chunks
  PROVE  Reading(Absorb(s, f))
<1>1. CASE s.barrier \/ f.delta = "none"
  BY <1>1, ParseReads DEF Absorb
<1>2. CASE ~s.barrier /\ f.delta # "none"
  <2>1. f.delta \in Calls \cup {"text"}
    BY <1>2 DEF Chunks
  <2>. QED
    BY <1>2, <2>1, ParseReads, ObserveReads DEF Absorb
<1>. QED
  BY <1>1, <1>2

-----------------------------------------------------------------------------
(* Accepting and replacing an attempt.                                     *)

\* The held calls are given back, unless there is no budget left for the
\* attempt the live stopper asked for.
Settled(s) == \/ Released(s) = s.tools
              \/ Released(s) = <<>> /\ Live /\ s.repeats /\ s.attempt >= MaxGlobal

LEMMA NoneSettles ==
  ASSUME NEW s, NEW lazy \in BOOLEAN, NEW loop \in BOOLEAN, s.attempt \in Nat,
         Decision(s, lazy, loop) = "none"
  PROVE  Settled(s)
BY BoundsAssumption DEF Settled, Released, Decision, Looping

\* Whatever is given back of the held calls was held, behind what was sent.
LEMMA GivenBack ==
  ASSUME NEW s, Reading(s)
  PROVE  /\ Released(s) \in Seq(Items) /\ HeldOf(s, Released(s), "tool")
         /\ \A p \in DOMAIN s.sent, q \in DOMAIN Released(s) :
              s.sent[p].kind = "tool" => Precedes(s.sent[p], Released(s)[q])
         /\ Released(s) # <<>> => \E q \in DOMAIN Released(s) : Released(s)[q].kind = "tool"
<1>1. Released(s) \in {s.tools, <<>>} /\ s.tools \in Seq(Items)
  BY DEF Released, Reading
<1>2. CASE Released(s) = <<>>
  BY <1>2 DEF HeldOf, InOrder
<1>3. CASE Released(s) = s.tools
  <2>1. s.tools # <<>> => 1 \in DOMAIN s.tools
    BY <1>1
  <2>. QED
    BY <1>1, <1>3, <2>1 DEF Reading, HeldOf, Behind
<1>. QED
  BY <1>1, <1>2, <1>3

\* What an attempt has sent when its held calls follow what went before them.
LEMMA HeldFollow ==
  ASSUME NEW s, Reading(s), NEW front \in Seq(Items), InOrder(front),
         \A p \in DOMAIN front : \/ In(s.sent, front[p])
                                 \/ In(s.buffer, front[p])
  PROVE  /\ front \o Released(s) \in Seq(Items) /\ InOrder(front \o Released(s))
         /\ \A p \in DOMAIN (front \o Released(s)) :
              LET i == (front \o Released(s))[p] IN
              /\ i \in Items /\ Kept(s, i) /\ i.attempt <= s.attempt
              /\ i.attempt = s.attempt => /\ i \in s.made /\ i.n <= s.frames
                                          /\ i.kind # "fallback"
              /\ i.kind = "tool" /\ i \in s.made =>
                   i.attempt = s.attempt /\ (s.hasTool \/ Released(s) # <<>>)
<1> DEFINE r == Released(s)  o == front \o r
<1>1. Typed(s) /\ \A q \in {s.sent, s.buffer, s.tools} : q \in Seq(Items) /\ \A p \in DOMAIN q : q[p] \in Items
  BY DEF Reading
<1>2. /\ r \in Seq(Items) /\ HeldOf(s, r, "tool") /\ (\A q \in DOMAIN r : r[q] \in Items)
      /\ \A p \in DOMAIN s.sent, q \in DOMAIN r : s.sent[p].kind = "tool" => Precedes(s.sent[p], r[q])
      /\ \A q \in DOMAIN r : r # <<>>
  BY GivenBack
<1> HIDE DEF r
<1>3. o \in Seq(Items) /\ \A p \in DOMAIN o : o[p] \in Items
  BY <1>2, Joined
<1>4. InOrder(o)
  <2>1. ASSUME NEW i \in DOMAIN front, NEW j \in DOMAIN r, front[i].kind = r[j].kind
        PROVE  Precedes(front[i], r[j])
    <3>1. front[i].kind = "tool"
      BY <1>2, <2>1 DEF HeldOf
    <3>2. ~In(s.buffer, front[i])
      BY <3>1 DEF In, Reading, HeldOf
    <3>3. PICK k \in DOMAIN s.sent : s.sent[k] = front[i]
      BY <3>2 DEF In
    <3>. QED
      BY <1>2, <3>1, <3>3
  <2>. QED
    BY <1>2, <2>1, JoinedInOrder DEF HeldOf
<1>5. ASSUME NEW p \in DOMAIN o
      PROVE  LET i == o[p] IN
             /\ Kept(s, i) /\ i.attempt <= s.attempt
             /\ i.attempt = s.attempt => i \in s.made /\ i.n <= s.frames /\ i.kind # "fallback"
             /\ i.kind = "tool" /\ i \in s.made => i.attempt = s.attempt /\ (s.hasTool \/ r # <<>>)
  <2> DEFINE i == o[p]
  <2>1. In(s.sent, i) \/ In(s.buffer, i) \/ In(r, i)
    <3>1. In(front, i) \/ In(r, i)
      BY <1>2, JoinedIn DEF In
    <3>. QED
      BY <3>1 DEF In
  <2>2. s.attempt \in Nat
    BY <1>1
  <2> HIDE DEF i
  <2>3. CASE In(s.sent, i)
    <3>1. PICK q \in DOMAIN s.sent : s.sent[q] = i
      BY <2>3 DEF In
    <3>2. /\ Kept(s, i) /\ i.attempt <= s.attempt
          /\ i.attempt = s.attempt => i \in s.made /\ i.n <= s.frames /\ i.kind # "fallback"
          /\ i.kind = "tool" /\ i \in s.made => i.attempt = s.attempt /\ s.hasTool
      BY <3>1, OfSent
    <3>. QED
      BY <3>2 DEF i
  <2>4. CASE In(s.buffer, i)
    <3>1. /\ Kept(s, i) /\ i.attempt <= s.attempt
          /\ i \in s.made /\ i.n <= s.frames /\ i.kind = "text"
      BY <2>2, <2>4, OfHeld
    <3>. QED
      BY <3>1 DEF i
  <2>5. CASE In(r, i)
    <3>1. PICK q \in DOMAIN r : r[q] = i
      BY <2>5 DEF In
    <3>2. /\ i \in s.made /\ i.attempt = s.attempt /\ i.n <= s.frames /\ i.kind = "tool"
          /\ r # <<>>
      BY <1>2, <3>1 DEF HeldOf
    <3>3. Kept(s, i) /\ i.attempt <= s.attempt
      BY <2>2, <3>2 DEF Kept
    <3>. QED
      BY <3>2, <3>3 DEF i
  <2>. QED
    BY <2>1, <2>3, <2>4, <2>5 DEF i
<1>. QED
  BY <1>3, <1>4, <1>5 DEF r

\* The output of an accepted attempt: what was sent, the held text, the held
\* tool calls.
LEMMA AcceptedOutput ==
  ASSUME NEW s, Reading(s), ~s.barrier, Settled(s)
  PROVE  LET t == Accept(s) IN
         /\ t.sent \in Seq(Items) /\ InOrder(t.sent)
         /\ \A p \in DOMAIN t.sent :
              /\ Kept(s, t.sent[p]) /\ t.sent[p].attempt <= s.attempt
              /\ t.sent[p].attempt = s.attempt => /\ t.sent[p] \in s.made /\ t.sent[p].n <= s.frames
                                                  /\ t.sent[p].kind # "fallback"
              /\ t.sent[p].kind = "tool" /\ t.sent[p] \in s.made =>
                   t.sent[p].attempt = s.attempt /\ t.hasTool
         /\ t.hasTool => \E p \in DOMAIN t.sent : t.sent[p].kind = "tool"
         /\ \A i \in s.made : In(t.sent, i) \/ Forgone(s, i)
<1> DEFINE t == Accept(s)  front == s.sent \o s.buffer  r == Released(s)
<1>1. /\ Typed(s) /\ t.sent = front \o r /\ t.hasTool = (s.hasTool \/ r # <<>>)
      /\ \A q \in {s.sent, s.buffer, s.tools} : q \in Seq(Items) /\ \A p \in DOMAIN q : q[p] \in Items
  BY DEF Reading, Accept
<1> HIDE DEF t
<1>2. front \in Seq(Items) /\ \A i : In(front, i) <=> In(s.sent, i) \/ In(s.buffer, i)
  BY <1>1, JoinedIn
<1>3. InOrder(front)
  <2>1. ASSUME NEW i \in DOMAIN s.sent, NEW j \in DOMAIN s.buffer
        PROVE  Precedes(s.sent[i], s.buffer[j])
    <3>1. ~s.barrier /\ HoldsOutput
      BY <2>1 DEF Reading, HeldBack
    <3>2. s.sent[i].attempt < s.attempt
      BY <1>1, <3>1 DEF Reading, SentSoFar, Items
    <3>. QED
      BY <3>2 DEF Reading, HeldOf, Precedes
  <2>. QED
    BY <1>1, <2>1, JoinedInOrder DEF Reading, SentSoFar, HeldOf
<1> HIDE DEF front
<1>4. \A p \in DOMAIN front : In(s.sent, front[p]) \/ In(s.buffer, front[p])
  BY <1>2 DEF In
<1>5. /\ t.sent \in Seq(Items) /\ InOrder(t.sent)
      /\ \A p \in DOMAIN t.sent :
           /\ Kept(s, t.sent[p]) /\ t.sent[p].attempt <= s.attempt
           /\ t.sent[p].attempt = s.attempt => /\ t.sent[p] \in s.made /\ t.sent[p].n <= s.frames
                                               /\ t.sent[p].kind # "fallback"
           /\ t.sent[p].kind = "tool" /\ t.sent[p] \in s.made =>
                t.sent[p].attempt = s.attempt /\ t.hasTool
  <2> DEFINE o == front \o r
  <2>1. /\ o \in Seq(Items) /\ InOrder(o)
        /\ \A p \in DOMAIN o :
             /\ Kept(s, o[p]) /\ o[p].attempt <= s.attempt
             /\ o[p].attempt = s.attempt => o[p] \in s.made /\ o[p].n <= s.frames /\ o[p].kind # "fallback"
             /\ o[p].kind = "tool" /\ o[p] \in s.made =>
                  o[p].attempt = s.attempt /\ (s.hasTool \/ r # <<>>)
    BY ONLY Reading(s), <1>2, <1>3, <1>4, HeldFollow
  <2>. QED
    BY ONLY <1>1, <2>1
<1>6. /\ r \in Seq(Items) /\ (r # <<>> => \E q \in DOMAIN r : r[q].kind = "tool")
      /\ r = s.tools \/ (r = <<>> /\ Live /\ s.repeats /\ s.attempt >= MaxGlobal)
  BY GivenBack DEF Settled
<1> HIDE DEF r
<1>7. \A i : In(t.sent, i) <=> In(front, i) \/ In(r, i)
  BY <1>1, <1>2, <1>6, JoinedIn
<1>8. t.hasTool => \E p \in DOMAIN t.sent : t.sent[p].kind = "tool"
  <2>1. ASSUME NEW i, i.kind = "tool", In(s.sent, i) \/ In(r, i)
        PROVE  \E p \in DOMAIN t.sent : t.sent[p].kind = "tool"
    BY <1>2, <1>7, <2>1 DEF In
  <2>2. s.hasTool => \E i : i.kind = "tool" /\ In(s.sent, i)
    BY DEF Reading, Flagged, In
  <2>3. r # <<>> => \E i : i.kind = "tool" /\ In(r, i)
    BY <1>6 DEF In
  <2>. QED
    BY <1>1, <2>1, <2>2, <2>3
<1>9. ASSUME NEW i \in s.made PROVE In(t.sent, i) \/ Forgone(s, i)
  <2>1. In(s.tools, i) => In(r, i) \/ Forgone(s, i)
    <3>1. In(s.tools, i) => i.kind = "tool" /\ i.attempt = s.attempt
      BY DEF In, Reading, HeldOf
    <3>. QED
      BY <1>6, <3>1 DEF Forgone
  <2>. QED
    BY <1>2, <1>7, <2>1 DEF Reading, Accounted
<1>. QED
  BY <1>5, <1>8, <1>9 DEF t

LEMMA PassedReads ==
  ASSUME NEW s, Reading(s), ~s.barrier, s.finish # "none", Settled(s)
  PROVE  Reading([Accept(s) EXCEPT !.barrier = TRUE])
<1> DEFINE a == Accept(s)  t == [a EXCEPT !.barrier = TRUE]
<1>1. /\ Typed(s) /\ DOMAIN a = Fields /\ a.hasTool = (s.hasTool \/ Released(s) # <<>>)
      /\ a.buffer = <<>> /\ a.tools = <<>> /\ a.made = s.made /\ a.state = s.state
      /\ a.attempt = s.attempt /\ a.nudges = s.nudges /\ a.stops = s.stops
      /\ a.frames = s.frames /\ a.finish = s.finish /\ a.sawTool = s.sawTool
      /\ a.repeats = s.repeats /\ a.more = s.more /\ a.late = s.late /\ a.ledger = s.ledger
  BY DEF Reading, Accept
<1>2. /\ a.sent \in Seq(Items) /\ InOrder(a.sent)
      /\ \A p \in DOMAIN a.sent :
           /\ Kept(s, a.sent[p]) /\ a.sent[p].attempt <= s.attempt
           /\ a.sent[p].attempt = s.attempt => /\ a.sent[p] \in s.made /\ a.sent[p].n <= s.frames
                                               /\ a.sent[p].kind # "fallback"
           /\ a.sent[p].kind = "tool" /\ a.sent[p] \in s.made =>
                a.sent[p].attempt = s.attempt /\ a.hasTool
      /\ a.hasTool => \E p \in DOMAIN a.sent : a.sent[p].kind = "tool"
      /\ \A i \in s.made : In(a.sent, i) \/ Forgone(s, i)
  BY AcceptedOutput
<1> HIDE DEF a
<1>3. /\ DOMAIN t = Fields /\ t.state = s.state
      /\ t.barrier = TRUE /\ t.hasTool = a.hasTool /\ t.sent = a.sent
      /\ t.buffer = <<>> /\ t.tools = <<>> /\ t.made = s.made
      /\ t.attempt = s.attempt /\ t.nudges = s.nudges /\ t.stops = s.stops
      /\ t.frames = s.frames /\ t.finish = s.finish /\ t.sawTool = s.sawTool
      /\ t.repeats = s.repeats /\ t.more = s.more /\ t.late = s.late /\ t.ledger = s.ledger
  BY <1>1
<1> HIDE DEF t
<1>9. Typed(t)
  <2>1. t.buffer \in Seq(Items) /\ t.tools \in Seq(Items) /\ t.hasTool \in BOOLEAN
    BY <1>1, <1>3
  <2>. QED
    BY <1>1, <1>2, <1>3, <2>1
<1>4. Counted(t) /\ HeldBack(t)
  BY <1>3 DEF Reading, Counted, HeldBack
<1>5. Flagged(t) /\ Behind(t)
  BY <1>2, <1>3 DEF Flagged, Behind
<1>6. HeldOf(t, t.buffer, "text") /\ HeldOf(t, t.tools, "tool")
  BY <1>3 DEF HeldOf, InOrder
<1>7. SentSoFar(t)
  BY <1>2, <1>3 DEF SentSoFar, Kept
<1>8. Accounted(t)
  BY <1>2, <1>3 DEF Accounted, Forgone
<1>. QED
  BY <1>4, <1>5, <1>6, <1>7, <1>8, <1>9 DEF Reading, t, a

\* What the arbitration of the finalizers guarantees about its outcome: budget
\* is left; no call was seen before a nudge; only a stopper does more; and the
\* live one starts no attempt when a call has been sent.
LEMMA Decided ==
  ASSUME NEW s, Reading(s), ~s.barrier, NEW lazy \in BOOLEAN, NEW loop \in BOOLEAN,
         Verdict(s, lazy, loop), Decision(s, lazy, loop) # "none"
  PROVE  LET d == Decision(s, lazy, loop) IN
         /\ d \in {"nudge", "stop", "prefix", "fallback"}
         /\ s.attempt < MaxGlobal
         /\ d \in {"nudge", "prefix"} => s.nudges < MaxNudges
         /\ d = "stop" => s.stops < MaxStops
         /\ d # "nudge" => HoldsOutput \/ Live
         /\ d = "nudge" => ~s.sawTool
         /\ d = "stop" /\ Live => ~Committed(s)
<1>1. MaxGlobal \in Nat /\ MaxNudges \in Nat /\ MaxStops \in Nat
  BY BoundsAssumption
<1>2. s.attempt \in Nat /\ s.nudges \in Nat /\ s.stops \in Nat
  BY DEF Reading
<1>. QED
  BY <1>1, <1>2 DEF Decision, Verdict, MayBeLazy, MayLoop, Looping, GivesUp

\* What was sent of an attempt that is replaced is taken back, unless the chain
\* could not hold it.
LEMMA RestartKeeps ==
  ASSUME NEW s, Reading(s), ~s.barrier, NEW i, In(s.sent, i),
         NEW d \in {"stop", "prefix"}, HoldsOutput \/ Live,
         d = "stop" /\ Live => ~Committed(s),
         NEW t, t.made = WithoutAttempt(s) \cup
                           IF d = "prefix" THEN {Item(s, "fallback")} ELSE {}
  PROVE  Kept(t, i)
<1>1. /\ Kept(s, i) /\ i \in Items /\ s.attempt \in Nat
      /\ i.attempt = s.attempt => i \in s.made /\ i.kind # "fallback" /\ ~HoldsOutput
  BY DEF In, Reading, SentSoFar
<1>2. Item(s, "fallback").kind = "fallback" /\ Item(s, "fallback").attempt = s.attempt
  BY DEF Item
<1>3. CASE i.attempt = s.attempt
  <2>1. Live /\ i.kind \in {"text", "tool"}
    BY <1>1, <1>3 DEF Items, Kinds
  <2>2. i.kind = "tool" => d = "prefix"
    BY <1>3, <2>1 DEF Committed, In
  <2>3. d = "prefix" => Item(s, "fallback") \in t.made
    OBVIOUS
  <2>. QED
    BY <1>2, <1>3, <2>1, <2>2, <2>3 DEF Kept
<1>4. CASE i.attempt # s.attempt
  <2>1. \A j \in s.made : j.attempt # s.attempt => j \in t.made
    BY DEF WithoutAttempt
  <2>. QED
    BY <1>1, <1>4, <2>1 DEF Kept
<1>. QED
  BY <1>3, <1>4

LEMMA RestartReads ==
  ASSUME NEW s, Reading(s), ~s.barrier, NEW atDone \in BOOLEAN,
         NEW lazy \in BOOLEAN, NEW loop \in BOOLEAN,
         Verdict(s, lazy, loop), Decision(s, lazy, loop) \in {"nudge", "stop", "prefix"}
  PROVE  Reading(Restart(s, Decision(s, lazy, loop), atDone))
<1> DEFINE d == Decision(s, lazy, loop)  t == Restart(s, d, atDone)  i == Item(s, "fallback")
<1>1. /\ d \in {"nudge", "stop", "prefix"} /\ s.attempt < MaxGlobal
      /\ d # "stop" => s.nudges < MaxNudges
      /\ d = "stop" => s.stops < MaxStops
      /\ d # "nudge" => HoldsOutput \/ Live
      /\ d = "nudge" => ~s.sawTool
      /\ d = "stop" /\ Live => ~Committed(s)
  BY Decided
<1>2. MaxGlobal \in Nat /\ MaxNudges \in Nat /\ MaxStops \in Nat
  BY BoundsAssumption
<1> HIDE DEF d
<1>3. Typed(s) /\ \A q \in {s.sent, s.buffer, s.tools} : q \in Seq(Items) /\ \A p \in DOMAIN q : q[p] \in Items
  BY DEF Reading
<1>4. i \in Items /\ i.kind = "fallback" /\ i.attempt = s.attempt
  BY <1>3 DEF Item, Items, Kinds
<1>5. /\ DOMAIN t = Fields /\ t.state = s.state
      /\ t.attempt = s.attempt + 1
      /\ t.nudges = IF d = "stop" THEN s.nudges ELSE s.nudges + 1
      /\ t.stops = IF d = "stop" THEN s.stops + 1 ELSE s.stops
      /\ t.frames = 0 /\ t.finish = "none" /\ t.barrier = FALSE
      /\ t.hasTool = (atDone /\ s.hasTool) /\ t.sawTool = FALSE /\ t.repeats = FALSE
      /\ t.more = s.more /\ t.late = s.late
      /\ t.buffer = <<>> /\ t.tools = <<>>
      /\ t.ledger = Append(s.ledger, s.attempt)
      /\ t.sent = IF d = "prefix" THEN Append(s.sent, i) ELSE s.sent
      /\ t.made = IF d = "nudge" THEN s.made
                  ELSE WithoutAttempt(s) \cup IF d = "prefix" THEN {i} ELSE {}
  BY <1>3, ZenonT(30) DEF Restart, Discard, Charge
<1> HIDE DEF i, t
<1>6. WithoutAttempt(s) = {j \in s.made : j.attempt # s.attempt}
  BY DEF WithoutAttempt
<1>7. Typed(t)
  <2>1. t.attempt \in Nat /\ t.nudges \in Nat /\ t.stops \in Nat /\ t.frames \in Nat
    BY <1>3, <1>5
  <2>2. t.sent \in Seq(Items) /\ t.made \subseteq Items /\ t.ledger \in Seq(Nat)
    BY <1>3, <1>4, <1>5, <1>6
  <2>3. t.buffer \in Seq(Items) /\ t.tools \in Seq(Items) /\ t.hasTool \in BOOLEAN
    BY <1>3, <1>5
  <2>. QED
    BY <1>3, <1>5, <2>1, <2>2, <2>3
<1>8. Counted(t)
  <2>1. /\ t.attempt = t.nudges + t.stops
        /\ t.nudges <= MaxNudges /\ t.stops <= MaxStops /\ t.attempt <= MaxGlobal
    BY <1>1, <1>2, <1>3, <1>5, SMTT(30) DEF Reading, Counted
  <2>2. Len(s.ledger) = s.attempt /\ \A k \in 1 .. s.attempt : s.ledger[k] = k - 1
    BY DEF Reading, Counted
  <2>3. Len(t.ledger) = t.attempt /\ \A k \in 1 .. t.attempt : t.ledger[k] = k - 1
    BY <1>3, <1>5, <2>2
  <2>. QED
    BY <2>1, <2>3 DEF Counted
<1>9. HeldBack(t) /\ HeldOf(t, t.buffer, "text") /\ HeldOf(t, t.tools, "tool") /\ Behind(t)
  BY <1>5 DEF HeldBack, HeldOf, InOrder, Behind
<1>10. /\ \A p \in DOMAIN s.sent : p \in DOMAIN t.sent /\ t.sent[p] = s.sent[p]
       /\ \A p \in DOMAIN t.sent : \/ p \in DOMAIN s.sent /\ t.sent[p] = s.sent[p]
                                   \/ d = "prefix" /\ t.sent[p] = i
  <2>1. CASE d = "prefix"
    <3>1. t.sent = Append(s.sent, i) /\ s.sent \in Seq(Items)
      BY <1>3, <1>5, <2>1
    <3>. QED
      BY <1>4, <2>1, <3>1
  <2>2. CASE d # "prefix"
    BY <1>5, <2>2
  <2>. QED
    BY <2>1, <2>2
<1>11. Flagged(t)
  <2>1. t.hasTool => \E p \in DOMAIN t.sent : t.sent[p].kind = "tool"
    BY <1>5, <1>10 DEF Reading, Flagged
  <2>2. \A p \in DOMAIN t.sent : ~(t.sent[p].kind = "tool" /\ t.sent[p] \in t.made)
    <3>1. ASSUME NEW p \in DOMAIN s.sent, s.sent[p].kind = "tool", s.sent[p] \in t.made PROVE FALSE
      <4>1. s.sent[p] # i
        BY <1>4, <3>1
      <4>2. s.sent[p] \in s.made /\ (d # "nudge" => s.sent[p].attempt # s.attempt)
        BY <1>5, <1>6, <3>1, <4>1
      <4>. QED
        BY <1>1, <3>1, <4>2, OfSent
    <3>. QED
      BY <1>4, <1>10, <3>1
  <2>. QED
    BY <1>5, <2>1, <2>2 DEF Flagged
<1>13. InOrder(t.sent)
  <2>1. CASE d = "prefix"
    <3>1. t.sent = Append(s.sent, i) /\ InOrder(s.sent)
      BY <1>5, <2>1 DEF Reading, SentSoFar
    <3>2. \A p \in DOMAIN s.sent : s.sent[p].kind = i.kind => Precedes(s.sent[p], i)
      BY <1>3, <1>4 DEF Precedes, Reading, SentSoFar, Items
    <3>. QED
      BY <1>3, <1>4, <3>1, <3>2, OneMore
  <2>2. CASE d # "prefix"
    BY <1>5, <2>2 DEF Reading, SentSoFar
  <2>. QED
    BY <2>1, <2>2
<1>14. SentSoFar(t)
  <2>1. ASSUME NEW p \in DOMAIN t.sent PROVE t.sent[p].attempt < t.attempt
    <3>1. t.sent[p] \in Items /\ t.sent[p].attempt <= s.attempt
      BY <1>3, <1>4, <1>10, OfSent
    <3>. QED
      BY <1>3, <1>5, <3>1 DEF Items
  <2>2. ASSUME NEW p \in DOMAIN t.sent PROVE Kept(t, t.sent[p])
    <3>1. CASE d = "nudge"
      BY <1>5, <1>10, <3>1 DEF Reading, SentSoFar, Kept
    <3>2. CASE d # "nudge" /\ p \in DOMAIN s.sent /\ t.sent[p] = s.sent[p]
      <4>1. In(s.sent, t.sent[p]) /\ d \in {"stop", "prefix"}
        BY <1>1, <3>2 DEF In
      <4>2. t.made = WithoutAttempt(s) \cup IF d = "prefix" THEN {Item(s, "fallback")} ELSE {}
        BY <1>5, <3>2 DEF i
      <4>. QED
        BY <1>1, <4>1, <4>2, RestartKeeps
    <3>3. CASE d = "prefix" /\ t.sent[p] = i
      BY <1>5, <3>3 DEF Kept
    <3>. QED
      BY <1>10, <3>1, <3>2, <3>3
  <2>3. t.attempt \in Nat /\ \A p \in DOMAIN t.sent : t.sent[p].attempt \in Nat
    <3>1. \A p \in DOMAIN t.sent : t.sent[p] \in Items
      BY <1>7
    <3>. QED
      BY <1>7, <3>1 DEF Items
  <2>. QED
    BY <1>13, <2>1, <2>2, <2>3 DEF SentSoFar
<1>15. Accounted(t)
  <2>1. ASSUME NEW j \in t.made PROVE In(t.sent, j) \/ Forgone(t, j)
    <3>1. CASE j \in s.made
      <4>1. CASE In(s.sent, j)
        BY <1>10, <4>1 DEF In
      <4>2. CASE In(s.buffer, j) \/ In(s.tools, j)
        <5>1. j.attempt = s.attempt /\ j.kind # "fallback"
          BY <4>2 DEF In, Reading, HeldOf
        <5>2. d = "nudge"
          BY <1>1, <1>4, <1>5, <1>6, <5>1
        <5>3. HoldsOutput
          BY <1>1, <4>2, <5>2 DEF In, Reading, HeldBack, Flagged
        <5>. QED
          BY <1>3, <1>5, <5>1, <5>3 DEF Forgone
      <4>3. CASE Forgone(s, j)
        BY <1>1, <1>2, <1>3, <1>5, <3>1, <4>3 DEF Forgone, Items
      <4>. QED
        BY <3>1, <4>1, <4>2, <4>3 DEF Reading, Accounted
    <3>2. CASE j \notin s.made
      <4>1. t.sent = Append(s.sent, i) /\ j = i
        BY <1>5, <1>6, <3>2
      <4>2. t.sent[Len(s.sent) + 1] = i /\ Len(s.sent) + 1 \in DOMAIN t.sent
        BY <1>3, <1>4, <4>1
      <4>. QED
        BY <4>1, <4>2 DEF In
    <3>. QED
      BY <3>1, <3>2
  <2>. QED
    BY <2>1 DEF Accounted
<1>. QED
  BY <1>7, <1>8, <1>9, <1>11, <1>14, <1>15 DEF Reading, t, d

-----------------------------------------------------------------------------
(* The end of an answer.                                                   *)

\* What may follow the output of an answer.
Finish == [kind : {"finish"}, reason : Reasons \cup {"stop", "tool_calls"}]
Tails == {<<>>, <<DoneFrame>>, <<ErrorFrame, DoneFrame>>}
           \cup {<<f>> : f \in Finish} \cup {<<f, DoneFrame>> : f \in Finish}

\* The output of an ended answer: its body, and the frames that end it.
LEMMA BodyAndTail ==
  ASSUME NEW body \in Seq(Items), NEW tail \in Tails, run'.sent = body \o tail,
         run'.state \in Endings, run'.late = FALSE
  PROVE  /\ Content' = DOMAIN body
         /\ \A p \in DOMAIN body : p \in DOMAIN run'.sent /\ run'.sent[p] = body[p]
         /\ \A p \in Terminal("finish")' : tail # <<>> /\ run'.sent[p] = tail[1]
         /\ TerminalOrder'
<1> DEFINE o == run'.sent  b == Len(body)
<1>1. /\ Len(tail) \in {0, 1, 2} /\ DOMAIN tail = 1 .. Len(tail)
      /\ Len(tail) = 0 => tail = <<>>
      /\ Len(tail) = 1 => tail[1].kind \in {"done", "finish"}
      /\ Len(tail) = 2 => tail[1].kind \in {"finish", "error"} /\ tail[2] = DoneFrame
  BY DEF Tails, Finish, DoneFrame, ErrorFrame
<1>2. b \in Nat /\ DOMAIN body = 1 .. b /\ DOMAIN o = 1 .. b + Len(tail)
  BY <1>1
<1>3. \A p \in 1 .. b : o[p] = body[p] /\ o[p].kind \in Kinds
  <2>1. \A p \in 1 .. b : o[p] = body[p] /\ body[p] \in Items
    BY <1>1
  <2>. QED
    BY <2>1 DEF Items
<1>4. \A p \in 1 .. Len(tail) : o[b + p] = tail[p]
  BY <1>1
<1>5. DoneFrame.kind = "done" /\ Told' = Len(o) /\ DOMAIN o = 1 .. Told'
  BY <1>1 DEF DoneFrame, Told
<1> HIDE DEF o, b
<1>6. ASSUME NEW p \in DOMAIN o
      PROVE  \/ p \in 1 .. b
             \/ p = b + 1 /\ Len(tail) \in {1, 2} /\ o[p] = tail[1]
             \/ p = b + 2 /\ Len(tail) = 2 /\ o[p] = DoneFrame
  <2>1. /\ Len(tail) \in {1, 2} => o[b + 1] = tail[1]
        /\ Len(tail) = 2 => o[b + 2] = DoneFrame
    BY <1>1, <1>4
  <2>2. b \in Nat /\ p \in Nat \ {0} /\ p <= b + Len(tail)
    BY <1>1, <1>2
  <2>3. CASE p = b + 1
    BY <1>1, <2>1, <2>2, <2>3
  <2>4. CASE p = b + 2
    BY <1>1, <2>1, <2>2, <2>4
  <2>5. p <= b + 2
    <3>1. Len(tail) \in Nat /\ Len(tail) <= 2
      <4> DEFINE l == Len(tail)
      <4>1. l \in {0, 1, 2}
        BY <1>1
      <4> HIDE DEF l
      <4>2. l \in Nat /\ l <= 2
        BY ONLY <4>1
      <4>. QED
        BY <4>2 DEF l
    <3>. QED
      BY <2>2, <3>1
  <2>6. p \in 1 .. b \/ p = b + 1 \/ p = b + 2
    BY <2>2, <2>5
  <2>. QED
    BY <2>3, <2>4, <2>6
<1>7. Content' = 1 .. b
  BY <1>1, <1>2, <1>3, <1>5, <1>6 DEF Content, o, Kinds
<1>8. \A p \in Terminal("finish")' : p = b + 1 /\ tail # <<>> /\ o[p] = tail[1]
  BY <1>1, <1>2, <1>3, <1>5, <1>6 DEF Terminal, o, Kinds
<1>9. \A p \in Terminal("done")' : p = Len(o)
  <2>1. Len(o) = b + Len(tail)
    BY <1>1 DEF o, b
  <2>. QED
    BY <1>1, <1>2, <1>3, <1>5, <1>6, <2>1 DEF Terminal, o, Kinds
<1>10. TerminalOrder'
  <2>1. \A p \in Terminal("finish")', q \in DOMAIN o : q > p => q = p + 1 /\ o[q] = DoneFrame
    BY <1>1, <1>2, <1>6, <1>8
  <2>2. \A p \in Terminal("done")' : p = Told'
    BY <1>5, <1>9
  <2>. QED
    BY <1>5, <1>8, <2>1, <2>2 DEF TerminalOrder, Ended, o
<1>. QED
  BY <1>2, <1>3, <1>7, <1>8, <1>10 DEF o, b

Output == Items \cup Finish \cup {DoneFrame, ErrorFrame}

\* The loop may not have been left yet, but then the handler has said nothing.
Shaped(s) == /\ DOMAIN s = Fields /\ s.sent \in Seq(Output) /\ s.attempt \in Nat
             /\ s.more \in BOOLEAN /\ s.late \in BOOLEAN /\ (s.more => ~s.late)

Over == /\ run.state \in Endings /\ Shaped(run)
        /\ KeptIsDelivered /\ TerminalFrames /\ RecoveriesCounted

\* What an answer has told the client when it ends: its body and the frames
\* that end it.
ToldBy(s, body, tail) ==
  /\ s.sent = body \o tail /\ s.state \in Endings
  /\ DOMAIN s = Fields /\ s.attempt \in Nat /\ s.made \subseteq Items
  /\ s.more \in BOOLEAN /\ s.late = FALSE

\* The reason given is the one the client is owed, or a call was overtaken.
ReasonFits(s, body, tail) ==
  tail # <<>> /\ tail[1].kind = "finish" =>
    \/ tail[1].reason = IF \E q \in DOMAIN body : body[q].kind = "tool" THEN "tool_calls"
                        ELSE IF s.finish = "none" THEN "stop" ELSE s.finish
    \/ \E q \in DOMAIN body : body[q].kind = "tool" /\ body[q] \notin s.made

\* An answer ends well if the body it delivers is kept, in order, and the
\* ledger and the budgets are in order.
LEMMA EndsWell ==
  ASSUME NEW body \in Seq(Items), NEW tail \in Tails, ToldBy(run', body, tail), chain' = chain,
         InOrder(body), \A p \in DOMAIN body : Kept(run', body[p]),
         run'.state = "completed" =>
           /\ \A i \in run'.made : In(body, i) \/ Forgone(run', i)
           /\ ReasonFits(run', body, tail),
         RecoveriesCounted'
  PROVE  Over'
<1>0. /\ run'.sent = body \o tail /\ run'.state \in Endings /\ run'.late = FALSE
      /\ Live' = Live /\ HoldsOutput' = HoldsOutput
  BY DEF ToldBy, Live, HoldsOutput
<1>1. /\ Content' = DOMAIN body
      /\ \A p \in DOMAIN body : p \in DOMAIN run'.sent /\ run'.sent[p] = body[p]
      /\ \A p \in Terminal("finish")' : tail # <<>> /\ run'.sent[p] = tail[1]
      /\ TerminalOrder'
  BY <1>0, BodyAndTail
<1>2. OnlyAccepted'
  BY <1>0, <1>1 DEF OnlyAccepted, Overtaken, Kept
<1>3. ExactlyOnceInOrder'
  BY <1>1 DEF ExactlyOnceInOrder, InOrder
<1>4. NothingLost'
  <2>1. ASSUME NEW i \in run'.made, Forgone(run', i)
        PROVE  \/ HoldsOutput /\ i.attempt # run'.attempt /\ i.kind # "fallback"
               \/ Live /\ run'.repeats /\ i.kind = "tool" /\ i.attempt = run'.attempt
                       /\ run'.attempt >= MaxGlobal
    <3>1. i.attempt \in Nat /\ run'.attempt \in Nat
      BY DEF ToldBy, Items
    <3>. QED
      BY <2>1, <3>1 DEF Forgone
  <2>. QED
    BY <1>0, <1>1, <2>1 DEF NothingLost, In, IsSent
<1>5. ReasonFaithful'
  <2>1. \A p \in Terminal("finish")' : run'.sent[p].kind = "finish"
    BY DEF Terminal
  <2>. QED
    BY <1>1, <2>1 DEF ReasonFaithful, ReasonFits
<1>6. Shaped(run')
  <2>1. body \in Seq(Output) /\ tail \in Seq(Output)
    <3>1. Items \subseteq Output /\ Finish \subseteq Output /\ DoneFrame \in Output /\ ErrorFrame \in Output
      BY DEF Output
    <3> DEFINE out == Output
    <3> HIDE DEF out
    <3>2. tail \in Seq(out)
      <4>1. Finish \subseteq out /\ DoneFrame \in out /\ ErrorFrame \in out
        BY <3>1 DEF out
      <4>2. /\ <<>> \in Seq(out) /\ <<DoneFrame>> \in Seq(out)
            /\ <<ErrorFrame, DoneFrame>> \in Seq(out)
            /\ \A f \in Finish : <<f>> \in Seq(out) /\ <<f, DoneFrame>> \in Seq(out)
        BY <4>1
      <4>. QED
        BY <4>2 DEF Tails
    <3>. QED
      BY <3>1, <3>2 DEF out
  <2>2. body \o tail \in Seq(Output)
    BY <2>1, Joined
  <2>. QED
    BY <2>2 DEF Shaped, ToldBy
<1>. QED
  BY <1>0, <1>1, <1>2, <1>3, <1>4, <1>5, <1>6 DEF Over, Shaped, KeptIsDelivered, TerminalFrames

\* The ledger of an answer that ends with its attempt entered.
LEMMA LastCharge ==
  ASSUME NEW s, Reading(s), run'.ledger = Append(s.ledger, s.attempt),
         run'.attempt = s.attempt, run'.nudges = s.nudges, run'.stops = s.stops,
         run'.state \in {"completed", "exhausted", "errored"}, ~Empty(run')
  PROVE  RecoveriesCounted'
<1>1. Len(s.ledger) = s.attempt /\ \A k \in 1 .. s.attempt : s.ledger[k] = k - 1
  BY DEF Reading, Counted
<1>2. run'.ledger = [k \in 1 .. s.attempt + 1 |-> k - 1]
  BY <1>1 DEF Reading
<1>3. Charged'
  BY DEF Charged, Empty, Produced
<1>. QED
  BY <1>2, <1>3 DEF RecoveriesCounted, LedgerExact, RecoveryBudgets, Reading, Counted

\* And of one that ends without.
LEMMA NoCharge ==
  ASSUME NEW s, Reading(s), run'.ledger = s.ledger,
         run'.attempt = s.attempt, run'.nudges = s.nudges, run'.stops = s.stops,
         \/ run'.state \notin {"completed", "exhausted", "errored"}
         \/ Empty(run') /\ run'.more
  PROVE  RecoveriesCounted'
<1>1. Len(s.ledger) = s.attempt /\ \A k \in 1 .. s.attempt : s.ledger[k] = k - 1
  BY DEF Reading, Counted
<1>2. run'.ledger = [k \in 1 .. s.attempt |-> k - 1]
  BY <1>1 DEF Reading
<1>3. ~Charged'
  BY DEF Charged, Empty, Produced
<1>. QED
  BY <1>2, <1>3 DEF RecoveriesCounted, LedgerExact, RecoveryBudgets, Reading, Counted

-----------------------------------------------------------------------------
LEMMA CompleteEnds ==
  ASSUME NEW s, Reading(s), s.barrier, chain' = chain, run' = Complete(s)
  PROVE  Over'
<1> DEFINE f == FinishFrame(IF s.hasTool THEN "tool_calls" ELSE s.finish)  tail == <<f, DoneFrame>>
<1>1. Typed(s) /\ s.finish # "none" /\ s.buffer = <<>> /\ s.tools = <<>>
  BY DEF Reading, HeldBack
<1>2. tail \in Tails /\ tail # <<>> /\ tail[1] = f
  BY <1>1 DEF Tails, Finish, FinishFrame
<1>3. /\ run'.sent = s.sent \o tail /\ run'.state = "completed" /\ run'.made = s.made
      /\ run'.ledger = Append(s.ledger, s.attempt) /\ run'.attempt = s.attempt
      /\ run'.nudges = s.nudges /\ run'.stops = s.stops /\ run'.finish = s.finish
      /\ run'.repeats = s.repeats /\ run'.more = TRUE /\ run'.late = FALSE /\ DOMAIN run' = Fields
  BY <1>1 DEF Complete, Charge
<1>4. \/ f.reason = IF \E q \in DOMAIN s.sent : s.sent[q].kind = "tool" THEN "tool_calls" ELSE s.finish
      \/ \E q \in DOMAIN s.sent : s.sent[q].kind = "tool" /\ s.sent[q] \notin s.made
  BY DEF FinishFrame, Reading, Flagged
<1> HIDE DEF tail, f
<1>5. RecoveriesCounted'
  <2>1. ~Empty(run')
    BY <1>1, <1>3 DEF Empty
  <2>. QED
    BY <1>3, <2>1, LastCharge
<1>6. \A i \in s.made : In(s.sent, i) \/ Forgone(run', i)
  BY <1>1, <1>3 DEF Reading, Accounted, Forgone, In
<1>7. InOrder(s.sent) /\ \A p \in DOMAIN s.sent : Kept(run', s.sent[p])
  BY <1>3 DEF Reading, SentSoFar, Kept
<1>8. ReasonFits(run', s.sent, tail)
  BY <1>1, <1>2, <1>3, <1>4 DEF ReasonFits
<1>9. s.sent \in Seq(Items) /\ ToldBy(run', s.sent, tail)
  BY <1>1, <1>3 DEF Endings, ToldBy
<1>. QED
  BY <1>2, <1>3, <1>5, <1>6, <1>7, <1>8, <1>9, EndsWell

LEMMA CompleteUnfinishedEnds ==
  ASSUME NEW s, Reading(s), s.finish = "none", Settled(s), chain' = chain,
         run' = CompleteUnfinished(s)
  PROVE  Over'
<1> DEFINE a == Accept(s)
           f == FinishFrame(IF a.hasTool THEN "tool_calls" ELSE "stop")
           tail == (IF Produced(s) THEN <<f>> ELSE <<>>) \o <<DoneFrame>>
<1>1. Typed(s) /\ ~s.barrier
  BY DEF Reading, HeldBack
<1>2. /\ tail \in Tails
      /\ tail # <<>> /\ tail[1].kind = "finish" => tail[1] = f
  <2>1. f \in Finish
    BY DEF Finish, FinishFrame
  <2>2. CASE Produced(s)
    <3>1. tail = <<f, DoneFrame>>
      BY <2>2, OneAndOne
    <3>. QED
      BY <2>1, <3>1, SMTT(30) DEF Tails
  <2>3. CASE ~Produced(s)
    <3>1. tail = <<DoneFrame>>
      BY <2>3
    <3>. QED
      BY <3>1 DEF Tails, DoneFrame
  <2>. QED
    BY <2>2, <2>3
<1>3. /\ DOMAIN a = Fields /\ a.made = s.made /\ a.attempt = s.attempt /\ a.nudges = s.nudges
      /\ a.stops = s.stops /\ a.finish = s.finish /\ a.ledger = s.ledger
      /\ a.repeats = s.repeats /\ a.late = FALSE /\ a.emitted = s.emitted /\ a.held = s.held
  BY <1>1 DEF Accept
<1>4. /\ a.sent \in Seq(Items) /\ InOrder(a.sent)
      /\ \A p \in DOMAIN a.sent :
           /\ Kept(s, a.sent[p])
           /\ a.sent[p].kind = "tool" /\ a.sent[p] \in s.made => a.hasTool
      /\ a.hasTool => \E p \in DOMAIN a.sent : a.sent[p].kind = "tool"
      /\ \A i \in s.made : In(a.sent, i) \/ Forgone(s, i)
  BY <1>1, AcceptedOutput
<1>5. /\ run'.sent = a.sent \o tail /\ run'.state = "completed" /\ run'.made = s.made
      /\ run'.ledger = (IF Produced(s) THEN Append(s.ledger, s.attempt) ELSE s.ledger)
      /\ run'.attempt = s.attempt /\ run'.nudges = s.nudges /\ run'.stops = s.stops
      /\ run'.finish = "none" /\ run'.repeats = s.repeats /\ DOMAIN run' = Fields
      /\ run'.more = TRUE /\ run'.late = FALSE /\ run'.emitted = s.emitted /\ run'.held = s.held
  BY <1>3, <1>4 DEF CompleteUnfinished, Charge
<1>6. \/ f.reason = IF \E q \in DOMAIN a.sent : a.sent[q].kind = "tool" THEN "tool_calls" ELSE "stop"
      \/ \E q \in DOMAIN a.sent : a.sent[q].kind = "tool" /\ a.sent[q] \notin s.made
  BY <1>4 DEF FinishFrame
<1> HIDE DEF tail, f, a
<1>7. RecoveriesCounted'
  <2>1. Empty(run') <=> ~Produced(s)
    BY <1>5 DEF Empty, Produced
  <2>. QED
    BY <1>5, <2>1, LastCharge, NoCharge
<1>8. (\A i \in s.made : In(a.sent, i) \/ Forgone(run', i)) /\ \A p \in DOMAIN a.sent : Kept(run', a.sent[p])
  BY <1>4, <1>5 DEF Forgone, Kept
<1>9. ReasonFits(run', a.sent, tail)
  BY <1>2, <1>5, <1>6 DEF ReasonFits
<1>10. ToldBy(run', a.sent, tail)
  BY <1>1, <1>5 DEF ToldBy, Endings
<1>. QED
  BY <1>2, <1>4, <1>5, <1>7, <1>8, <1>9, <1>10, EndsWell

\* An error event, or an exception: the error frames follow what was sent.
LEMMA ErrorEnds ==
  ASSUME NEW s, Reading(s), chain' = chain,
         \/ run' = Fail(s)
         \/ run' = [s EXCEPT !.sent = @ \o <<ErrorFrame, DoneFrame>>, !.state = "raised"]
  PROVE  Over'
<1> DEFINE tail == <<ErrorFrame, DoneFrame>>
<1>1. Typed(s) /\ InOrder(s.sent) /\ \A p \in DOMAIN s.sent : Kept(s, s.sent[p])
  BY DEF Reading, SentSoFar
<1>2. tail \in Tails
  BY DEF Tails
<1>3. /\ run'.sent = s.sent \o tail /\ run'.made = s.made /\ run'.attempt = s.attempt
      /\ run'.nudges = s.nudges /\ run'.stops = s.stops /\ DOMAIN run' = Fields
      /\ run'.more \in BOOLEAN /\ run'.late = FALSE
      /\ \/ run'.state = "errored" /\ run'.ledger = Append(s.ledger, s.attempt)
         \/ run'.state = "raised" /\ run'.ledger = s.ledger
  BY <1>1 DEF Fail, Charge
<1> HIDE DEF tail
<1>4. RecoveriesCounted'
  <2>1. ~Empty(run')
    BY <1>3 DEF Empty
  <2>. QED
    BY <1>3, <2>1, LastCharge, NoCharge
<1>5. ToldBy(run', s.sent, tail) /\ run'.state # "completed" /\ s.sent \in Seq(Items)
  BY <1>1, <1>3 DEF Endings, ToldBy
<1>6. \A p \in DOMAIN s.sent : Kept(run', s.sent[p])
  BY <1>1, <1>3 DEF Kept
<1>. QED
  BY <1>1, <1>2, <1>3, <1>4, <1>5, <1>6, EndsWell

LEMMA ExhaustEnds ==
  ASSUME NEW s, Reading(s), chain' = chain, run' = Exhaust(s)
  PROVE  Over'
<1> DEFINE r == Released(s)
           reason == IF s.barrier THEN s.finish
                     ELSE IF r # <<>> THEN "tool_calls" ELSE "stop"
           tail == IF Produced(s) THEN <<FinishFrame(reason)>> ELSE <<>>
           body == s.sent \o r
<1>1. Typed(s) /\ (s.barrier => s.finish # "none")
  BY DEF Reading, HeldBack
<1>2. tail \in Tails
  <2>1. reason \in Reasons \cup {"stop", "tool_calls"}
    BY <1>1
  <2>. QED
    BY <2>1 DEF Tails, Finish, FinishFrame
<1>3. /\ run'.sent = body \o tail /\ run'.made = s.made /\ run'.attempt = s.attempt
      /\ run'.nudges = s.nudges /\ run'.stops = s.stops /\ run'.state = "exhausted"
      /\ run'.ledger = Append(s.ledger, s.attempt) /\ DOMAIN run' = Fields
      /\ run'.more = FALSE /\ run'.late = FALSE
  BY <1>1 DEF Exhaust, Charge
<1> HIDE DEF tail
<1>4. RecoveriesCounted'
  <2>1. ~Empty(run')
    BY <1>3 DEF Empty
  <2>. QED
    BY <1>3, <2>1, LastCharge
<1>5. body \in Seq(Items) /\ InOrder(body) /\ \A p \in DOMAIN body : Kept(s, body[p])
  <2>1. InOrder(s.sent) /\ \A p \in DOMAIN s.sent : In(s.sent, s.sent[p])
    BY DEF Reading, SentSoFar, In
  <2>. QED
    BY <1>1, <2>1, HeldFollow
<1> HIDE DEF body
<1>6. \A p \in DOMAIN body : Kept(run', body[p])
  BY <1>3, <1>5 DEF Kept
<1>7. ToldBy(run', body, tail) /\ run'.state # "completed"
  BY <1>1, <1>3 DEF Endings, ToldBy
<1>. QED
  BY <1>2, <1>4, <1>5, <1>6, <1>7, EndsWell

LEMMA OneAndTwo ==
  ASSUME NEW S, NEW q \in Seq(S), NEW x \in S, NEW y \in S, NEW z \in S
  PROVE  q \o <<x, y, z>> = Append(q, x) \o <<y, z>>
<1> DEFINE u == q \o <<x, y, z>>  v == Append(q, x) \o <<y, z>>
<1>1. u \in Seq(S) /\ v \in Seq(S) /\ Len(u) = Len(q) + 3 /\ Len(v) = Len(q) + 3
  OBVIOUS
<1>2. ASSUME NEW p \in 1 .. Len(u) PROVE u[p] = v[p]
  <2>1. p \in 1 .. Len(q) \/ p = Len(q) + 1 \/ p = Len(q) + 2 \/ p = Len(q) + 3
    BY <1>1
  <2>2. CASE p \in 1 .. Len(q)
    BY <2>2
  <2>3. CASE p = Len(q) + 1
    BY <2>3
  <2>4. CASE p = Len(q) + 2
    BY <2>4
  <2>5. CASE p = Len(q) + 3
    BY <2>5
  <2>. QED
    BY <2>1, <2>2, <2>3, <2>4, <2>5
<1> HIDE DEF u, v
<1>3. u = v
  BY <1>1, <1>2, SeqEqual
<1>. QED
  BY <1>3 DEF u, v

LEMMA FallBackEnds ==
  ASSUME NEW s, Reading(s), ~s.barrier, HoldsOutput \/ Live, chain' = chain,
         run' = FallBack(s)
  PROVE  Over'
<1> DEFINE i == Item(s, "fallback")  f == FinishFrame("stop")
           body == Append(s.sent, i)  tail == <<f, DoneFrame>>
<1>1. Typed(s)
  BY DEF Reading
<1>2. i \in Items /\ i.kind = "fallback" /\ i.attempt = s.attempt
  BY <1>1 DEF Item, Items, Kinds
<1>3. tail \in Tails
  BY DEF Tails, Finish, FinishFrame
<1> HIDE DEF i, f
<1>4. s.sent \o <<i, f, DoneFrame>> = body \o tail
  <2> DEFINE q == s.sent  d == DoneFrame  S == Items \cup {f, d}
  <2>1. q \in Seq(S)
    BY <1>1
  <2>2. i \in S /\ f \in S /\ d \in S
    BY <1>2
  <2> HIDE DEF S, q, d
  <2>3. q \o <<i, f, d>> = Append(q, i) \o <<f, d>>
    BY ONLY <2>1, <2>2, OneAndTwo
  <2>. QED
    BY <2>3 DEF q, d
<1>5. /\ run'.sent = s.sent \o <<i, f, DoneFrame>>
      /\ run'.made = WithoutAttempt(s) \cup {i}
      /\ run'.attempt = s.attempt /\ run'.nudges = s.nudges /\ run'.stops = s.stops
      /\ run'.state = "fellback" /\ run'.ledger = s.ledger /\ DOMAIN run' = Fields
      /\ run'.more = TRUE /\ run'.late = FALSE
  BY <1>1 DEF FallBack, Discard, i, f
<1> HIDE DEF tail
<1>6. RecoveriesCounted'
  BY <1>5, NoCharge
<1>7. InOrder(body)
  <2>1. \A p \in DOMAIN s.sent : s.sent[p].kind = i.kind => Precedes(s.sent[p], i)
    BY <1>1, <1>2, OfSent, SMTT(30) DEF Precedes
  <2>. QED
    BY <1>1, <1>2, <2>1, OneMore DEF Reading, SentSoFar
<1>8. \A p \in DOMAIN body : Kept(run', body[p])
  <2>1. \A p \in DOMAIN body : body[p] = i \/ In(s.sent, body[p])
    BY <1>1, <1>2 DEF In
  <2>2. \A j : In(s.sent, j) => Kept(FallBack(s), j)
    <3> DEFINE t == FallBack(s)
    <3>1. t.made = WithoutAttempt(s) \cup IF "prefix" = "prefix" THEN {Item(s, "fallback")} ELSE {}
      BY <1>5 DEF i
    <3> HIDE DEF t
    <3>. QED
      BY <3>1, RestartKeeps DEF t
  <2>3. Kept(run', i)
    BY <1>5 DEF Kept
  <2>. QED
    BY <2>1, <2>2, <2>3
<1>9. run'.made \subseteq Items
  BY <1>1, <1>2, <1>5 DEF WithoutAttempt
<1>10. body \in Seq(Items) /\ ToldBy(run', body, tail) /\ run'.state # "completed"
  <2>1. body \in Seq(Items) /\ run'.attempt \in Nat
    BY <1>1, <1>2, <1>5
  <2>2. run'.sent = body \o tail
    BY <1>4, <1>5
  <2>. QED
    BY <1>5, <1>9, <2>1, <2>2 DEF Endings, ToldBy
<1> HIDE DEF body
<1>. QED
  BY <1>3, <1>6, <1>7, <1>8, <1>10, EndsWell

-----------------------------------------------------------------------------
(* The invariant.                                                          *)

RunnerInv == Reading(run) \/ Over

LEMMA RunnerInit == SrInit => RunnerInv
<1> SUFFICES ASSUME SrInit PROVE Reading(run)
  BY DEF RunnerInv
<1>1. Typed(run)
  BY DEF SrInit
<1>2. Counted(run) /\ HeldBack(run) /\ Flagged(run) /\ Behind(run)
  BY BoundsAssumption DEF SrInit, Counted, HeldBack, Flagged, Behind
<1>3. HeldOf(run, run.buffer, "text") /\ HeldOf(run, run.tools, "tool")
  BY DEF SrInit, HeldOf, InOrder
<1>4. SentSoFar(run) /\ Accounted(run)
  BY DEF SrInit, SentSoFar, Accounted, InOrder
<1>. QED
  BY <1>1, <1>2, <1>3, <1>4 DEF Reading

\* Whether output is held does not change while the answer is read.
LEMMA StillReading ==
  ASSUME NEW s, Reading(s), run' = s, chain' = chain
  PROVE  RunnerInv'
<1>1. HoldsOutput' = HoldsOutput /\ Live' = Live
  BY DEF HoldsOutput, Live
<1>2. Typed(run)' /\ Counted(run)' /\ HeldBack(run)' /\ Flagged(run)' /\ Behind(run)'
  BY <1>1 DEF Reading, Counted, HeldBack, Flagged, Behind, Precedes
<1>3. HeldOf(run, run.buffer, "text")' /\ HeldOf(run, run.tools, "tool")'
  BY DEF Reading, HeldOf, InOrder, Precedes
<1>4. SentSoFar(run)'
  BY <1>1 DEF Reading, SentSoFar, InOrder, Precedes, Kept
<1>5. Accounted(run)'
  BY <1>1 DEF Reading, Accounted, In, Forgone
<1>. QED
  BY <1>2, <1>3, <1>4, <1>5 DEF RunnerInv, Reading

LEMMA Rejected ==
  ASSUME Reading(run), ~run.barrier, NEW atDone \in BOOLEAN,
         NEW lazy \in BOOLEAN, NEW loop \in BOOLEAN, Verdict(run, lazy, loop),
         Decision(run, lazy, loop) # "none",
         Step(Reject(run, Decision(run, lazy, loop), atDone))
  PROVE  RunnerInv'
<1> DEFINE d == Decision(run, lazy, loop)
<1>1. d \in {"nudge", "stop", "prefix", "fallback"} /\ (d = "fallback" => HoldsOutput \/ Live)
  BY Decided
<1>2. CASE d = "fallback"
  <2>1. run' = FallBack(run) /\ chain' = chain
    BY <1>2 DEF Step, Reject
  <2>2. run'.state = "fellback"
    BY <2>1 DEF FallBack, Discard, Reading
  <2>. QED
    BY <1>1, <1>2, <2>1, <2>2, FallBackEnds DEF RunnerInv, Endings
<1>3. CASE d # "fallback"
  <2>1. run' = Restart(run, d, atDone) /\ chain' = chain
    BY <1>3 DEF Step, Reject
  <2>2. Reading(Restart(run, d, atDone))
    BY <1>1, <1>3, RestartReads
  <2>. QED
    BY <2>1, <2>2, StillReading
<1>. QED
  BY <1>2, <1>3

\* The parts of the properties that do not look at how the loop is left.
LEMMA SameDelivery ==
  ASSUME Over, chain' = chain, run'.state = run.state, run'.made = run.made,
         run'.attempt = run.attempt, run'.repeats = run.repeats, run'.finish = run.finish,
         Content' = Content, \A p \in Content : run'.sent[p] = run.sent[p],
         DOMAIN run.sent \subseteq DOMAIN run'.sent,
         \A p \in DOMAIN run.sent : run'.sent[p] = run.sent[p],
         Terminal("finish")' = Terminal("finish"),
         \A p \in Terminal("finish") : run'.sent[p] = run.sent[p]
  PROVE  KeptIsDelivered' /\ ReasonFaithful'
<1>1. Live' = Live /\ HoldsOutput' = HoldsOutput
  BY DEF Live, HoldsOutput
<1>2. OnlyAccepted'
  BY <1>1 DEF Over, KeptIsDelivered, OnlyAccepted, Overtaken
<1>3. ExactlyOnceInOrder'
  BY DEF Over, KeptIsDelivered, ExactlyOnceInOrder, Precedes
<1>4. NothingLost'
  BY <1>1 DEF Over, KeptIsDelivered, NothingLost, IsSent
<1>5. ReasonFaithful'
  BY DEF Over, TerminalFrames, ReasonFaithful
<1>. QED
  BY <1>2, <1>3, <1>4, <1>5 DEF KeptIsDelivered

\* The loop is left behind the answer; an attempt that was empty is charged.
LEMMA LeftWell ==
  ASSUME Over, LoopEnds
  PROVE  Over'
<1>1. /\ Shaped(run) /\ run.more /\ ~run.late
      /\ run' = [(IF Empty(run) THEN Charge(run) ELSE run) EXCEPT !.more = FALSE] /\ chain' = chain
  BY DEF Over, Shaped, LoopEnds, Step
<1>2. /\ run'.state = run.state /\ run'.made = run.made /\ run'.attempt = run.attempt
      /\ run'.repeats = run.repeats /\ run'.finish = run.finish /\ run'.sent = run.sent
      /\ run'.nudges = run.nudges /\ run'.stops = run.stops /\ run'.late = run.late
      /\ run'.emitted = run.emitted /\ run'.held = run.held
      /\ run'.more = FALSE /\ DOMAIN run' = Fields
      /\ run'.ledger = IF Empty(run) THEN Append(run.ledger, run.attempt) ELSE run.ledger
  BY <1>1 DEF Shaped, Charge
<1>3. Told' = Told /\ Content' = Content /\ \A k : Terminal(k)' = Terminal(k)
  BY <1>2 DEF Told, Content, Terminal
<1>4. KeptIsDelivered' /\ ReasonFaithful'
  BY <1>1, <1>2, <1>3, SameDelivery
<1>5. TerminalOrder'
  BY <1>1, <1>2, <1>3 DEF Over, TerminalFrames, TerminalOrder, Ended
<1>6. LedgerExact'
  <2>1. Charged' <=> (Charged \/ Empty(run))
    BY <1>1, <1>2 DEF Charged, Empty, Produced
  <2>2. LedgerExact /\ run.attempt \in Nat
    BY DEF Over, RecoveriesCounted, Shaped
  <2>3. CASE Empty(run)
    <3>1. run.ledger = [k \in 1 .. run.attempt |-> k - 1]
      BY <1>1, <2>2, <2>3 DEF LedgerExact, Charged
    <3>2. Append(run.ledger, run.attempt) = [k \in 1 .. run.attempt + 1 |-> k - 1]
      BY <2>2, <3>1
    <3>. QED
      BY <1>2, <2>1, <2>3, <3>2 DEF LedgerExact
  <2>4. CASE ~Empty(run)
    BY <1>2, <2>1, <2>2, <2>4 DEF LedgerExact
  <2>. QED
    BY <2>3, <2>4
<1>7. RecoveryBudgets' /\ Shaped(run')
  BY <1>1, <1>2 DEF Over, RecoveriesCounted, RecoveryBudgets, Shaped
<1>. QED
  BY <1>2, <1>4, <1>5, <1>6, <1>7 DEF Over, Shaped, TerminalFrames, RecoveriesCounted

\* Or the upstream raises there, and the handler adds its own error and Done.
LEMMA RaisedWell ==
  ASSUME Over, RaisedLate
  PROVE  Over'
<1> DEFINE o == run.sent  w == run'.sent  n == Len(run.sent)  two == <<ErrorFrame, DoneFrame>>
<1>1. /\ Shaped(run) /\ run.more /\ ~run.late /\ chain' = chain
      /\ run' = [run EXCEPT !.sent = @ \o two, !.more = FALSE, !.late = TRUE]
  BY DEF Over, Shaped, RaisedLate, Step
<1>2. /\ run'.state = run.state /\ run'.made = run.made /\ run'.attempt = run.attempt
      /\ run'.repeats = run.repeats /\ run'.finish = run.finish /\ w = o \o two
      /\ run'.nudges = run.nudges /\ run'.stops = run.stops /\ run'.ledger = run.ledger
      /\ run'.emitted = run.emitted /\ run'.held = run.held
      /\ run'.more = FALSE /\ run'.late = TRUE /\ DOMAIN run' = Fields
  BY <1>1 DEF Shaped
<1>3. /\ o \in Seq(Output) /\ n \in Nat /\ DOMAIN o = 1 .. n /\ w \in Seq(Output)
      /\ Len(w) = n + 2 /\ DOMAIN w = 1 .. n + 2
      /\ \A p \in 1 .. n : w[p] = o[p]
      /\ w[n + 1] = ErrorFrame /\ w[n + 2] = DoneFrame
  <2>1. o \in Seq(Output) /\ two \in Seq(Output) /\ Len(two) = 2
    BY <1>1 DEF Shaped, Output
  <2>. QED
    BY <1>2, <2>1
<1>4. Told = n /\ Told' = n /\ SubSeq(w, n + 1, n + 2) = two
  <2>1. Told = n /\ Told' = n
    BY <1>1, <1>2, <1>3 DEF Told
  <2>2. SubSeq(w, n + 1, n + 2) \in Seq(Output) /\ Len(SubSeq(w, n + 1, n + 2)) = 2
    BY <1>3
  <2>3. \A p \in 1 .. 2 : SubSeq(w, n + 1, n + 2)[p] = two[p]
    BY <1>3
  <2>4. two \in Seq(Output) /\ Len(two) = 2
    BY DEF Output
  <2>. QED
    BY <2>1, <2>2, <2>3, <2>4, SeqEqual
<1>5. ErrorFrame.kind = "error" /\ DoneFrame.kind = "done"
  BY DEF ErrorFrame, DoneFrame
<1> HIDE DEF o, w, n, two
<1>6. Content' = Content
  <2>1. \A p \in 1 .. n + 2 : p \in 1 .. n \/ p = n + 1 \/ p = n + 2
    BY <1>3
  <2>. QED
    BY <1>3, <1>5, <2>1 DEF Content, o, w
<1>7. \A k : Terminal(k)' = Terminal(k)
  BY <1>3, <1>4 DEF Terminal, o, w
<1>8. /\ DOMAIN run.sent \subseteq DOMAIN run'.sent
      /\ \A p \in DOMAIN run.sent : run'.sent[p] = run.sent[p]
      /\ \A p \in Content : run'.sent[p] = run.sent[p]
      /\ \A p \in Terminal("finish") : run'.sent[p] = run.sent[p]
  BY <1>3, <1>4 DEF o, w, Content, Terminal
<1>9. KeptIsDelivered' /\ ReasonFaithful'
  BY <1>1, <1>2, <1>6, <1>7, <1>8, SameDelivery
<1>10. TerminalOrder'
  <2>1. \A p \in Terminal("finish"), q \in 1 .. n :
          q > p => q = p + 1 /\ run'.sent[q] = DoneFrame
    BY <1>3, <1>4 DEF Over, TerminalFrames, TerminalOrder, o, w
  <2>2. \A p \in Terminal("done") : p = n
    BY <1>4 DEF Over, TerminalFrames, TerminalOrder
  <2>3. \A p, q \in Terminal("finish") : p = q
    BY DEF Over, TerminalFrames, TerminalOrder
  <2>4. Ended' /\ SubSeq(run'.sent, Told' + 1, Len(run'.sent)) = <<ErrorFrame, DoneFrame>>
    BY <1>2, <1>3, <1>4 DEF Over, Ended, w, two
  <2>. QED
    BY <1>4, <1>7, <2>1, <2>2, <2>3, <2>4 DEF TerminalOrder
<1>11. RecoveriesCounted'
  <2>1. Charged' <=> Charged
    BY <1>1, <1>2 DEF Charged, Empty, Produced
  <2>. QED
    BY <1>2, <2>1 DEF Over, RecoveriesCounted, LedgerExact, RecoveryBudgets
<1>12. Shaped(run')
  BY <1>1, <1>2, <1>3 DEF Shaped, w
<1>. QED
  BY <1>2, <1>9, <1>10, <1>11, <1>12 DEF Over, Shaped, TerminalFrames

LEMMA RunnerStep == RunnerInv /\ [SrNext]_srVars => RunnerInv'
<1> SUFFICES ASSUME RunnerInv, [SrNext]_srVars PROVE RunnerInv'
  OBVIOUS
<1> DEFINE passed == [Accept(run) EXCEPT !.barrier = TRUE]
<1>1. CASE UNCHANGED srVars
  <2>1. chain' = chain /\ run' = run
    BY <1>1 DEF srVars
  <2>2. CASE Reading(run)
    BY <2>1, <2>2, StillReading
  <2>3. CASE Over
    <3>1. Told' = Told /\ Content' = Content /\ \A k : Terminal(k)' = Terminal(k)
      BY <2>1 DEF Told, Content, Terminal
    <3>2. KeptIsDelivered' /\ ReasonFaithful'
      BY <2>1, <2>3, <3>1, SameDelivery
    <3>3. TerminalOrder'
      BY <2>1, <2>3, <3>1 DEF Over, TerminalFrames, TerminalOrder, Ended
    <3>4. RecoveriesCounted'
      BY <2>1, <2>3 DEF Over, RecoveriesCounted, LedgerExact, RecoveryBudgets, Charged, Empty, Produced
    <3>. QED
      BY <2>1, <2>3, <3>2, <3>3, <3>4 DEF RunnerInv, Over, TerminalFrames, Shaped
  <2>. QED
    BY <2>2, <2>3 DEF RunnerInv
<1>2. /\ run.state = "reading" => Reading(run)
      /\ run.more => Over
  BY DEF RunnerInv, Over, Endings, Reading
<1>3. ASSUME NEW f \in Chunks, ReadFrame(f) PROVE RunnerInv'
  <2>1. Reading(Absorb(run, f))
    BY <1>2, <1>3, AbsorbReads DEF ReadFrame
  <2>. QED
    BY <1>3, <2>1, StillReading DEF ReadFrame, Step
<1>4. ASSUME NEW f \in Frames, NEW lazy \in BOOLEAN, NEW loop \in BOOLEAN,
             FinishBarrier(f, lazy, loop)
      PROVE  RunnerInv'
  <2> DEFINE d == Decision(run, lazy, loop)
  <2>1. Reading(run)
    BY <1>2, <1>4 DEF FinishBarrier
  <2>2. ~run.barrier /\ run.finish # "none" /\ Verdict(run, lazy, loop)
    BY <1>4 DEF FinishBarrier, BeforeBarrier
  <2>3. CASE d # "none"
    <3>1. Step(Reject(run, d, FALSE))
      BY <1>4, <2>3 DEF FinishBarrier
    <3>. QED
      BY <2>1, <2>2, <2>3, <3>1, Rejected
  <2>4. CASE d = "none"
    <3>1. Reading(passed)
      <4>1. Settled(run)
        BY <2>1, <2>4, NoneSettles DEF Reading
      <4>. QED
        BY <2>1, <2>2, <4>1, PassedReads
    <3>2. passed.barrier
      BY <2>1 DEF Reading, Accept
    <3>3. Step(IF f.kind = "chunk" THEN Absorb(passed, f)
               ELSE IF f.kind = "done" THEN Complete(passed) ELSE Fail(passed))
      BY <1>4, <2>4 DEF FinishBarrier
    <3> HIDE DEF passed
    <3>4. CASE f.kind = "chunk"
      <4>1. f \in Chunks
        BY <3>4 DEF Frames
      <4>2. Reading(Absorb(passed, f))
        BY <3>1, <4>1, AbsorbReads
      <4>. QED
        BY <3>3, <3>4, <4>2, StillReading DEF Step
    <3>5. CASE f.kind = "done"
      <4>1. run' = Complete(passed) /\ chain' = chain
        BY <3>3, <3>5 DEF Step
      <4>2. run'.state = "completed"
        BY <3>1, <4>1 DEF Complete, Charge, Reading
      <4>. QED
        BY <3>1, <3>2, <4>1, <4>2, CompleteEnds DEF RunnerInv, Endings
    <3>6. CASE f.kind \notin {"chunk", "done"}
      <4>1. run' = Fail(passed) /\ chain' = chain
        BY <3>3, <3>6 DEF Step
      <4>2. run'.state = "errored"
        BY <3>1, <4>1 DEF Fail, Charge, Reading
      <4>. QED
        BY <3>1, <4>1, <4>2, ErrorEnds DEF RunnerInv, Endings
    <3>. QED
      BY <3>4, <3>5, <3>6
  <2>. QED
    BY <2>3, <2>4
<1>5. ASSUME NEW lazy \in BOOLEAN, NEW loop \in BOOLEAN, DoneBarrier(lazy, loop)
      PROVE  RunnerInv'
  <2> DEFINE d == Decision(run, lazy, loop)
  <2>1. Reading(run) /\ run.finish = "none" /\ Verdict(run, lazy, loop)
    BY <1>2, <1>5 DEF DoneBarrier
  <2>2. ~run.barrier
    BY <2>1 DEF Reading, HeldBack
  <2>3. CASE d # "none"
    <3>1. Step(Reject(run, d, TRUE))
      BY <1>5, <2>3 DEF DoneBarrier
    <3>. QED
      BY <2>1, <2>2, <2>3, <3>1, Rejected
  <2>4. CASE d = "none"
    <3>1. run' = CompleteUnfinished(run) /\ chain' = chain
      BY <1>5, <2>4 DEF DoneBarrier, Step
    <3>2. run'.state = "completed"
      BY <2>1, <3>1 DEF CompleteUnfinished, Accept, Charge, Reading
    <3>3. Settled(run)
      BY <2>1, <2>4, NoneSettles DEF Reading
    <3>. QED
      BY <2>1, <3>1, <3>2, <3>3, CompleteUnfinishedEnds DEF RunnerInv, Endings
  <2>. QED
    BY <2>3, <2>4
<1>6. ASSUME DoneAfterBarrier PROVE RunnerInv'
  <2>1. Reading(run) /\ run.barrier /\ run' = Complete(run) /\ chain' = chain
    BY <1>2, <1>6 DEF DoneAfterBarrier, Step
  <2>2. run'.state = "completed"
    BY <2>1 DEF Complete, Charge, Reading
  <2>. QED
    BY <2>1, <2>2, CompleteEnds DEF RunnerInv, Endings
<1>7. ASSUME ErrorEvent PROVE RunnerInv'
  <2>1. Reading(run) /\ run' = Fail(run) /\ chain' = chain
    BY <1>2, <1>7 DEF ErrorEvent, Step
  <2>2. run'.state = "errored"
    BY <2>1 DEF Fail, Charge, Reading
  <2>. QED
    BY <2>1, <2>2, ErrorEnds DEF RunnerInv, Endings
<1>8. ASSUME UpstreamEnds PROVE RunnerInv'
  <2>1. Reading(run) /\ run' = Exhaust(run) /\ chain' = chain
    BY <1>2, <1>8 DEF UpstreamEnds, Step
  <2>2. run'.state = "exhausted"
    BY <2>1 DEF Exhaust, Charge, Reading
  <2>. QED
    BY <2>1, <2>2, ExhaustEnds DEF RunnerInv, Endings
<1>9. ASSUME RaisedNow PROVE RunnerInv'
  <2>1. /\ Reading(run) /\ chain' = chain
        /\ run' = [run EXCEPT !.sent = @ \o <<ErrorFrame, DoneFrame>>, !.state = "raised"]
    BY <1>2, <1>9 DEF RaisedNow, Step
  <2>2. run'.state = "raised"
    BY <2>1 DEF Reading
  <2>. QED
    BY <2>1, <2>2, ErrorEnds DEF RunnerInv, Endings
<1>10. ASSUME RaisedLate PROVE RunnerInv'
  BY <1>2, <1>10, RaisedWell DEF RaisedLate, RunnerInv
<1>11. ASSUME LoopEnds PROVE RunnerInv'
  BY <1>2, <1>11, LeftWell DEF LoopEnds, RunnerInv
<1>. QED
  BY <1>1, <1>3, <1>4, <1>5, <1>6, <1>7, <1>8, <1>9, <1>10, <1>11 DEF SrNext, UpstreamRaises

\* While it is read an answer has what is asked of one that has ended.
LEMMA ReadingKeeps == Reading(run) => KeptIsDelivered /\ TerminalFrames /\ RecoveriesCounted
<1> SUFFICES ASSUME Reading(run) PROVE KeptIsDelivered /\ TerminalFrames /\ RecoveriesCounted
  OBVIOUS
<1>1. /\ run.state = "reading" /\ DOMAIN run.sent = 1 .. Len(run.sent) /\ Told = Len(run.sent)
      /\ ~run.late /\ \A p \in DOMAIN run.sent : run.sent[p].kind \in Kinds
  <2>1. \A p \in DOMAIN run.sent : run.sent[p] \in Items
    BY DEF Reading
  <2>. QED
    BY <2>1 DEF Reading, Items, Told
<1>2. OnlyAccepted /\ ExactlyOnceInOrder
  BY DEF Reading, SentSoFar, InOrder, OnlyAccepted, ExactlyOnceInOrder, Content, Kept, Overtaken
<1>3. NothingLost /\ ReasonFaithful
  BY <1>1 DEF NothingLost, ReasonFaithful
<1>4. TerminalOrder
  <2>1. \A k \in {"finish", "done", "error"} : Terminal(k) = {}
    BY <1>1 DEF Terminal, Kinds
  <2>. QED
    BY <1>1, <2>1 DEF TerminalOrder
<1>5. RecoveriesCounted
  <2>1. run.ledger = [k \in 1 .. run.attempt |-> k - 1]
    BY DEF Reading, Counted
  <2>. QED
    BY <1>1, <2>1 DEF RecoveriesCounted, LedgerExact, Charged, RecoveryBudgets, Reading, Counted
<1>. QED
  BY <1>2, <1>3, <1>4, <1>5 DEF KeptIsDelivered, TerminalFrames

-----------------------------------------------------------------------------
\* The runner's state is sound in every reachable state: what it holds, what
\* it has sent and what it has counted fit together.
THEOREM RunnerInvariant == SrSpec => []RunnerInv
BY RunnerInit, RunnerStep, PTL DEF SrSpec

LEMMA RunnerSafe == RunnerInv => KeptIsDelivered /\ TerminalFrames /\ RecoveriesCounted
BY ReadingKeeps DEF RunnerInv, Over

\* The client gets the output of the attempts that were kept, all of it, once
\* and in order, and of an attempt that was replaced nothing but what a chain
\* with live output could not hold back (_run_core).
THEOREM KeptOutputDelivered == SrSpec => []KeptIsDelivered
BY RunnerInvariant, RunnerSafe, PTL

\* Finish and [DONE] stay behind the barrier, in their place, also when the
\* upstream raises behind them, and the finish reason says whether a tool call
\* was delivered.
THEOREM TerminalFramesInPlace == SrSpec => []TerminalFrames
BY RunnerInvariant, RunnerSafe, PTL

\* Every attempt is in the usage ledger once, and the recoveries stay within
\* the budget of each finalizer and the one they share.
THEOREM EveryRecoveryCounted == SrSpec => []RecoveriesCounted
BY RunnerInvariant, RunnerSafe, PTL
=============================================================================
