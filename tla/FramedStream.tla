---------------------------- MODULE FramedStream ----------------------------
(* One direction of a ch3net.ReliableConn (ch3/internal/ch3net/ch3net.go and *)
(* ch3proto.go): several goroutines send messages on one TCP connection, one *)
(* goroutine receives them.  A message travels as a length and a body, and   *)
(* TCP keeps neither together: it is a stream of parts with a buffer of Room *)
(* parts.  A call may run into its deadline; the parts it has moved stay     *)
(* moved.  At most MaxCuts calls are cut off between the two parts of a      *)
(* message; a deadline before the first part costs nothing.                  *)
EXTENDS Naturals, Sequences, FiniteSets

CONSTANTS Writer, MaxSends, Room, MaxCuts, None

StreamAssumption == /\ Room \in Nat \ {0} /\ MaxSends \in Nat /\ MaxCuts \in Nat
                    /\ None \notin Writer \cup [by : Writer, nr : 1..MaxSends]

VARIABLES stream,     \* the parts written and not yet read
          writeMu,    \* the writer inside SendTimeout
          writing,    \* what each writer has to write: "none", "length" or "body"
          count,      \* how many messages each writer has begun
          reading,    \* the message whose length has been read, or None
          sent,       \* the messages written to the end, in order
          got,        \* the messages RecvJSON has returned
          garbled,    \* a part was read in the place of another
          cuts

vars == <<stream, writeMu, writing, count, reading, sent, got, garbled, cuts>>

Message == [by : Writer, nr : 1..MaxSends]
Part    == [of : Message, is : {"length", "body"}]
Latest(w) == [by |-> w, nr |-> count[w]]

TypeOK == /\ stream \in Seq(Part) /\ Len(stream) <= Room
          /\ writeMu \in Writer \cup {None} /\ writing \in [Writer -> {"none", "length", "body"}]
          /\ count \in [Writer -> 0..MaxSends]
          /\ reading \in Message \cup {None}
          /\ sent \in Seq(Message) /\ got \in Seq(Message)
          /\ garbled \in BOOLEAN /\ cuts \in 0..MaxCuts

Init == /\ stream = <<>> /\ writeMu = None /\ writing = [w \in Writer |-> "none"]
        /\ count = [w \in Writer |-> 0] /\ reading = None /\ sent = <<>> /\ got = <<>>
        /\ garbled = FALSE /\ cuts = 0

-----------------------------------------------------------------------------

(* ReliableConn.SendTimeout: take writeMu, then SendJSON. *)
Lock_Never(w) == /\ writing[w] = "none" /\ count[w] < MaxSends
                 /\ writeMu' = w /\ count' = [count EXCEPT ![w] = @ + 1]
                 /\ writing' = [writing EXCEPT ![w] = "length"]
                 /\ UNCHANGED <<stream, reading, sent, got, garbled, cuts>>
Lock(w) == /\ writeMu = None /\ writing[w] = "none" /\ count[w] < MaxSends
           /\ writeMu' = w /\ count' = [count EXCEPT ![w] = @ + 1]
           /\ writing' = [writing EXCEPT ![w] = "length"]
           /\ UNCHANGED <<stream, reading, sent, got, garbled, cuts>>

(* SendJSON: one writeFull of the length, one of the body; the deferred     *)
(* Unlock follows the second.                                               *)
Write(w) == /\ writing[w] # "none" /\ Len(stream) < Room
            /\ stream' = Append(stream, [of |-> Latest(w), is |-> writing[w]])
            /\ IF writing[w] = "length"
               THEN writing' = [writing EXCEPT ![w] = "body"] /\ UNCHANGED <<writeMu, sent>>
               ELSE /\ writing' = [writing EXCEPT ![w] = "none"] /\ writeMu' = None
                    /\ sent' = Append(sent, Latest(w))
            /\ UNCHANGED <<count, reading, got, garbled, cuts>>

(* The write deadline passes while the buffer is full: SendTimeout returns  *)
(* the timeout, and the length, once written, stays in the stream.          *)
SendDeadline(w) == /\ writing[w] # "none" /\ Len(stream) = Room
                   /\ writing[w] = "body" => cuts < MaxCuts
                   /\ cuts' = IF writing[w] = "body" THEN cuts + 1 ELSE cuts
                   /\ writing' = [writing EXCEPT ![w] = "none"] /\ writeMu' = None
                   /\ UNCHANGED <<stream, count, reading, sent, got, garbled>>

-----------------------------------------------------------------------------

(* RecvJSON: binary.Read takes the next four bytes for a length, then       *)
(* io.ReadFull as many bytes for a body, whatever they are.                 *)
ReadLength == /\ reading = None /\ stream # <<>> /\ ~garbled
              /\ IF Head(stream).is = "length" THEN reading' = Head(stream).of /\ UNCHANGED garbled
                                               ELSE garbled' = TRUE /\ UNCHANGED reading
              /\ stream' = Tail(stream)
              /\ UNCHANGED <<writeMu, writing, count, sent, got, cuts>>
ReadBody_Again == /\ reading # None /\ stream # <<>> /\ ~garbled
                  /\ got' = Append(got, Head(stream).of)
                  /\ UNCHANGED <<stream, garbled>> /\ reading' = None
                  /\ UNCHANGED <<writeMu, writing, count, sent, cuts>>
ReadBody == /\ reading # None /\ stream # <<>> /\ ~garbled
            /\ IF Head(stream) = [of |-> reading, is |-> "body"]
               THEN got' = Append(got, reading) /\ UNCHANGED garbled
               ELSE garbled' = TRUE /\ UNCHANGED got
            /\ stream' = Tail(stream) /\ reading' = None
            /\ UNCHANGED <<writeMu, writing, count, sent, cuts>>

(* ReliableConn.Recv runs into its read deadline between the two: the       *)
(* length it has taken is forgotten.                                        *)
RecvDeadline == /\ reading # None /\ stream = <<>> /\ cuts < MaxCuts
                /\ reading' = None /\ cuts' = cuts + 1
                /\ UNCHANGED <<stream, writeMu, writing, count, sent, got, garbled>>

Next == \/ \E w \in Writer : Lock(w) \/ Write(w) \/ SendDeadline(w)
        \/ ReadLength \/ ReadBody \/ RecvDeadline

Spec == /\ Init /\ [][Next]_vars
        /\ WF_vars(ReadLength) /\ WF_vars(ReadBody)
        /\ \A w \in Writer : WF_vars(Write(w))

-----------------------------------------------------------------------------

\* The messages written to the end and not yet returned.
Underway == LET bodies == SelectSeq(stream, LAMBDA part : part.is = "body")
            IN  [i \in DOMAIN bodies |-> bodies[i].of]

(* The framing works: whatever the buffer does to the parts and however the *)
(* senders interleave, the receiver returns the messages sent, each one     *)
(* once, whole and in the order in which they were written; a send given up *)
(* on (broadcast: "a send that times out only drops the frame") leaves no   *)
(* trace.  (ReliableConn.SendTimeout, SendJSON, RecvJSON)                   *)
Delivered == ~garbled /\ sent = got \o Underway

(* What has been written is received in the end.                            *)
Received == (sent # got) ~> (sent = got)
=============================================================================
