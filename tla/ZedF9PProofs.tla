---------------------------- MODULE ZedF9PProofs ----------------------------
(***************************************************************************)
(* The set-ups of the receiver, for every table of settings, number of     *)
(* tries and depth of nesting: a try is counted as acknowledged only after *)
(* an acknowledge was parsed since its message was last sent               *)
(* (HeardSinceSentHolds), a rover set-up during which the mode was never   *)
(* NONE is not confirmed (RoverNeverConfirmed), and of a success every     *)
(* setting that no other acknowledge can have been taken for is in force   *)
(* (SuccessIsInForce).                                                     *)
(***************************************************************************)
EXTENDS ZedF9P, SequenceTheorems, TLAPS

CallsOK ==
  /\ calls \in Seq(Call) /\ ack \in BOOLEAN
  /\ \A i \in DOMAIN calls : calls[i].left # << >>

(* Whatever happens below the top keeps what is said of the outer calls. *)
LEMMA OuterCalls ==
  ASSUME CallsOK, calls # << >>
  PROVE  /\ Outer \in Seq(Call) /\ top \in Call /\ top.left # << >>
         /\ DOMAIN Outer = 1 .. Len(calls) - 1 /\ Len(Outer) = Len(calls) - 1
         /\ \A i \in DOMAIN Outer : i \in DOMAIN calls /\ Outer[i] = calls[i]
         /\ Len(calls) \in DOMAIN calls /\ top = calls[Len(calls)]
<1> DEFINE n == Len(calls) - 1
<1>1. Len(calls) \in Nat /\ Len(calls) # 0 BY EmptySeq DEF CallsOK
<1>2. n \in Nat /\ Len(calls) \in DOMAIN calls /\ (\A i \in 1 .. n : i \in DOMAIN calls)
  BY <1>1 DEF CallsOK
<1>3. \A i \in 1 .. n : calls[i] \in Call BY <1>2 DEF CallsOK
<1> HIDE DEF n
<1>4. /\ SubSeq(calls, 1, n) \in Seq(Call) /\ Len(SubSeq(calls, 1, n)) = n
      /\ \A i \in 1 .. n : SubSeq(calls, 1, n)[i] = calls[i]
  BY <1>2, <1>3, SubSeqProperties
<1>5. Outer = SubSeq(calls, 1, n) BY DEF Outer, n
<1>6. DOMAIN Outer = 1 .. n BY <1>4, <1>5, LenProperties
<1>7. top \in Call /\ top.left # << >> BY <1>2 DEF CallsOK, top
<1> QED BY <1>2, <1>4, <1>5, <1>6, <1>7 DEF n, top

(* What a call appended makes of a list of calls.                          *)
LEMMA AppendSeq ==
  ASSUME NEW s \in Seq(Call), NEW c \in Call
  PROVE  /\ Append(s, c) \in Seq(Call) /\ Len(Append(s, c)) = Len(s) + 1
         /\ DOMAIN Append(s, c) = 1 .. Len(s) + 1 /\ DOMAIN s = 1 .. Len(s)
         /\ Append(s, c)[Len(s) + 1] = c
         /\ \A i \in DOMAIN s : i \in DOMAIN Append(s, c) /\ Append(s, c)[i] = s[i]
         /\ \A i \in DOMAIN Append(s, c) :
              (i \in DOMAIN s /\ Append(s, c)[i] = s[i]) \/ Append(s, c)[i] = c
OBVIOUS

(* A call that sends its message is the same call, waiting anew.           *)
DoubtSent(c) ==
  IF OthersUnderWay(Head(c.left)) THEN c.doubt \cup {Head(c.left)} ELSE c.doubt \ {Head(c.left)}

(* Sending changes the doubt of a call and lets it wait anew, nothing      *)
(* else.                                                                   *)
LEMMA SendsFields ==
  ASSUME NEW c \in Call, c.left # << >>
  PROVE  /\ Sends(c) \in Call /\ Head(c.left) \in Message
         /\ Sends(c).op = c.op /\ Sends(c).all = c.all /\ Sends(c).left = c.left
         /\ Sends(c).out_res = c.out_res /\ Sends(c).none = c.none
         /\ Sends(c).res = FALSE /\ Sends(c).heard = FALSE
         /\ Sends(c).doubt = DoubtSent(c)
<1> DEFINE D == DoubtSent(c)
<1>1. c.left \in Seq(Message) /\ c.doubt \in SUBSET Message BY DEF Call
<1>2. Head(c.left) \in Message BY <1>1, HeadTailProperties
<1>3. D \in SUBSET Message BY <1>1, <1>2 DEF DoubtSent
<1>4. Sends(c) = [c EXCEPT !.res = FALSE, !.heard = FALSE, !.doubt = D]
  BY DEF Sends, DoubtSent
<1> HIDE DEF D
<1>5. [c EXCEPT !.res = FALSE, !.heard = FALSE, !.doubt = D] \in Call
  BY <1>3, Zenon DEF Call
<1>6. LET d == [c EXCEPT !.res = FALSE, !.heard = FALSE, !.doubt = D] IN
      /\ d.op = c.op /\ d.all = c.all /\ d.left = c.left /\ d.out_res = c.out_res
      /\ d.none = c.none /\ d.res = FALSE /\ d.heard = FALSE /\ d.doubt = D
  BY Zenon DEF Call
<1> QED BY <1>2, <1>4, <1>5, <1>6 DEF D

(* A new set-up has all its messages left and has not heard anything.      *)
LEMMA NewCallFields ==
  ASSUME NEW op \in Operation, NEW messages \in Seq(Message), NEW ok \in BOOLEAN
  PROVE  LET c == NewCall(op, messages, ok) IN
         /\ c \in Call /\ c.op = op /\ c.all = messages /\ c.left = messages
         /\ c.res = FALSE /\ c.out_res = ok /\ c.doubt = {} /\ c.none = (rtk_mode = "NONE")
<1>1. 1 \in 1 .. UBX_SEND_TRY BY TryAssumption
<1>2. (rtk_mode = "NONE") \in BOOLEAN /\ {} \in SUBSET Message OBVIOUS
<1>3. NewCall(op, messages, ok) \in Call BY <1>1, <1>2, Zenon DEF NewCall, Call
<1> QED BY <1>3, Zenon DEF NewCall

(* Of which most need no more than this.                                   *)
LEMMA NewCallType ==
  ASSUME NEW op \in Operation, NEW messages \in Seq(Message), NEW ok \in BOOLEAN
  PROVE  NewCall(op, messages, ok) \in Call /\ NewCall(op, messages, ok).left = messages
BY NewCallFields, ZenonT(60)

(* A further try changes nothing but the count of tries.                   *)
LEMMA RetriedFields ==
  ASSUME CallsOK, calls # << >>, top.try < UBX_SEND_TRY
  PROVE  LET c == [top EXCEPT !.try = @ + 1] IN
         /\ c \in Call /\ c.op = top.op /\ c.all = top.all /\ c.left = top.left
         /\ c.out_res = top.out_res /\ c.doubt = top.doubt /\ c.none = top.none
<1>1. top \in Call BY OuterCalls
<1>2. top.try + 1 \in 1 .. UBX_SEND_TRY BY <1>1, TryAssumption DEF Call
<1>3. [top EXCEPT !.try = @ + 1] \in Call BY <1>1, <1>2, Zenon DEF Call
<1>4. LET c == [top EXCEPT !.try = @ + 1] IN
      /\ c.op = top.op /\ c.all = top.all /\ c.left = top.left
      /\ c.out_res = top.out_res /\ c.doubt = top.doubt /\ c.none = top.none
  BY <1>1, Zenon DEF Call
<1> QED BY <1>3, <1>4

(* A sequence of more than one message without its first.                  *)
LEMMA TailOf ==
  ASSUME NEW S, NEW s \in Seq(S), Len(s) > 1
  PROVE  /\ Tail(s) \in Seq(S) /\ Tail(s) # << >> /\ Len(Tail(s)) = Len(s) - 1
         /\ Head(s) = s[1] /\ Head(Tail(s)) = s[2]
         /\ \A j \in DOMAIN Tail(s) : j + 1 \in DOMAIN s /\ Tail(s)[j] = s[j + 1]
<1>1. s # << >> /\ Len(s) \in Nat BY EmptySeq
<1>2. /\ Tail(s) \in Seq(S) /\ Len(Tail(s)) = Len(s) - 1
      /\ \A i \in 1 .. Len(Tail(s)) : Tail(s)[i] = s[i + 1]
  BY <1>1, HeadTailProperties
<1>3. DOMAIN Tail(s) = 1 .. Len(s) - 1 /\ DOMAIN s = 1 .. Len(s)
  BY <1>2, LenProperties
<1>4. Tail(s) # << >>
  <2>1. Len(Tail(s)) # 0 BY <1>1, <1>2
  <2>2. Len(<< >>) = 0 OBVIOUS
  <2> QED BY <2>1, <2>2, Zenon
<1>5. Head(s) = s[1] /\ Head(Tail(s)) = Tail(s)[1] BY <1>1, <1>4
<1> QED BY <1>1, <1>2, <1>3, <1>4, <1>5

(* The next message of a call is the head of the rest of them.             *)
LEMMA AdvancedFields ==
  ASSUME CallsOK, calls # << >>, Len(top.left) > 1, NEW r \in BOOLEAN
  PROVE  LET c == [top EXCEPT !.left = Tail(@), !.try = 1, !.out_res = r] IN
         /\ c \in Call /\ c.op = top.op /\ c.all = top.all /\ c.left = Tail(top.left)
         /\ c.out_res = r /\ c.doubt = top.doubt /\ c.none = top.none
         /\ Tail(top.left) # << >>
<1>1. top \in Call BY OuterCalls
<1>2. top.left \in Seq(Message) BY <1>1 DEF Call
<1>3. Tail(top.left) \in Seq(Message) /\ Tail(top.left) # << >> BY <1>2, TailOf
<1>4. 1 \in 1 .. UBX_SEND_TRY BY TryAssumption
<1>5. [top EXCEPT !.left = Tail(@), !.try = 1, !.out_res = r] \in Call
  BY <1>1, <1>3, <1>4, Zenon DEF Call
<1>6. LET c == [top EXCEPT !.left = Tail(@), !.try = 1, !.out_res = r] IN
      /\ c.op = top.op /\ c.all = top.all /\ c.left = Tail(top.left)
      /\ c.out_res = r /\ c.doubt = top.doubt /\ c.none = top.none
  BY <1>1, Zenon DEF Call
<1> QED BY <1>3, <1>5, <1>6

-----------------------------------------------------------------------------
(* The call at the top sends, its message again or its next one.           *)
TopSends(c) ==
  /\ calls # << >> /\ c \in Call /\ c.left # << >>
  /\ c.op = top.op /\ c.all = top.all /\ c.doubt = top.doubt /\ c.none = top.none
  /\ calls' = Append(Outer, Sends(c))
  /\ ubx_send_message(Head(c.left))
  /\ report' = NoReport
  /\ UNCHANGED <<env, rtk_mode, ubx_on, poll, toHost, cfg>>

(* TryAgain: the call at the top sends the same message.                   *)
LEMMA TryAgainSends ==
  ASSUME CallsOK, TryAgain
  PROVE  /\ Expired /\ late' = late - 1
         /\ \E c : TopSends(c) /\ c.left = top.left /\ c.out_res = top.out_res
<1> DEFINE c == [top EXCEPT !.try = @ + 1]
<1>1. /\ calls # << >> /\ top.try < UBX_SEND_TRY /\ calls' = Append(Outer, Sends(c))
      /\ ubx_send_message(Head(top.left)) /\ report' = NoReport
      /\ UNCHANGED <<env, rtk_mode, ubx_on, poll, toHost, cfg>>
      /\ Expired /\ late' = late - 1
  BY Zenon DEF TryAgain, zed
<1>2. /\ c \in Call /\ c.op = top.op /\ c.all = top.all /\ c.left = top.left
      /\ c.out_res = top.out_res /\ c.doubt = top.doubt /\ c.none = top.none
  BY <1>1, RetriedFields, Zenon
<1>3. top.left # << >> BY <1>1, OuterCalls
<1> HIDE DEF c
<1>4. TopSends(c) BY <1>1, <1>2, <1>3, Zenon DEF TopSends
<1> QED BY <1>1, <1>2, <1>4, Zenon

(* The result of a set-up is a Boolean.                                    *)
LEMMA OutResType == ASSUME CallsOK, calls # << >>, NEW ok \in BOOLEAN PROVE OutRes(ok) \in BOOLEAN
BY OuterCalls DEF OutRes, Call

(* NextMessage: the call at the top sends its next message.                *)
LEMMA NextMessageSends ==
  ASSUME CallsOK, NextMessage
  PROVE  \E ok \in BOOLEAN : \E c :
           /\ TryEnds(ok) /\ Len(top.left) > 1 /\ late' = (IF ok THEN late ELSE late - 1)
           /\ TopSends(c) /\ c.left = Tail(top.left) /\ c.out_res = OutRes(ok)
<1>1. PICK ok \in BOOLEAN :
        /\ TryEnds(ok) /\ Len(top.left) > 1 /\ late' = (IF ok THEN late ELSE late - 1)
        /\ ubx_send_message(Head(Tail(top.left)))
        /\ calls' = Append(Outer, Sends([top EXCEPT !.left = Tail(@), !.try = 1,
                                                    !.out_res = OutRes(ok)]))
        /\ report' = NoReport
        /\ UNCHANGED <<env, zed, poll, toHost, cfg>>
  BY Zenon DEF NextMessage
<1> DEFINE c == [top EXCEPT !.left = Tail(@), !.try = 1, !.out_res = OutRes(ok)]
<1>2. calls # << >> BY <1>1 DEF TryEnds
<1>3. OutRes(ok) \in BOOLEAN BY <1>2, OutResType
<1>4. /\ c \in Call /\ c.op = top.op /\ c.all = top.all /\ c.left = Tail(top.left)
      /\ c.out_res = OutRes(ok) /\ c.doubt = top.doubt /\ c.none = top.none
      /\ Tail(top.left) # << >>
  BY <1>1, <1>2, <1>3, AdvancedFields, Zenon
<1>5. calls' = Append(Outer, Sends(c)) BY <1>1
<1>7. UNCHANGED <<env, rtk_mode, ubx_on, poll, toHost, cfg>> BY <1>1, Zenon DEF zed
<1> HIDE DEF c
<1>6. TopSends(c) BY <1>1, <1>2, <1>4, <1>5, <1>7, Zenon DEF TopSends
<1> QED BY <1>1, <1>4, <1>6, Zenon

(* What the sending call, and the calls above which it waits, become.      *)
LEMMA TopSendsCalls ==
  ASSUME CallsOK, NEW c, TopSends(c)
  PROVE  /\ CallsOK' /\ Len(calls') = Len(calls) /\ DOMAIN calls' = DOMAIN calls
         /\ \A i \in DOMAIN calls : i # Len(calls) => calls'[i] = calls[i]
         /\ top' = Sends(c) /\ calls'[Len(calls)] = Sends(c)
<1>1. /\ calls # << >> /\ c \in Call /\ c.left # << >> /\ calls' = Append(Outer, Sends(c))
      /\ ack' = FALSE
  BY DEF TopSends, ubx_send_message
<1>2. /\ Outer \in Seq(Call) /\ DOMAIN Outer = 1 .. Len(calls) - 1 /\ Len(Outer) = Len(calls) - 1
      /\ \A i \in DOMAIN Outer : i \in DOMAIN calls /\ Outer[i] = calls[i]
      /\ Len(calls) \in Nat /\ DOMAIN calls = 1 .. Len(calls)
  BY <1>1, OuterCalls DEF CallsOK
<1>3. Sends(c) \in Call /\ Sends(c).left # << >> BY <1>1, SendsFields
<1> DEFINE d == Sends(c)
<1> HIDE DEF d
<1>4. /\ calls' \in Seq(Call) /\ Len(calls') = Len(calls) /\ DOMAIN calls' = DOMAIN calls
      /\ calls'[Len(calls)] = d
      /\ \A i \in DOMAIN Outer : calls'[i] = Outer[i]
  BY <1>1, <1>2, <1>3, AppendSeq DEF d
<1>5. \A i \in DOMAIN calls : i # Len(calls) => calls'[i] = calls[i]
  BY <1>2, <1>4
<1>6. \A i \in DOMAIN calls' : calls'[i].left # << >>
  BY <1>3, <1>4, <1>5 DEF CallsOK, d
<1>7. top' = d BY <1>4 DEF top
<1> QED BY <1>1, <1>4, <1>5, <1>6, <1>7 DEF CallsOK, d

-----------------------------------------------------------------------------
(* Changes of single fields of all calls.                                  *)
LEMMA MappedCalls ==
  ASSUME CallsOK, NEW s, s = [i \in DOMAIN calls |-> s[i]],
         \A i \in DOMAIN calls : s[i] \in Call /\ s[i].left = calls[i].left
  PROVE  /\ s \in Seq(Call) /\ Len(s) = Len(calls) /\ DOMAIN s = DOMAIN calls
         /\ \A i \in DOMAIN s : s[i].left # << >>
<1>1. calls \in Seq(Call) /\ DOMAIN calls = 1 .. Len(calls) /\ Len(calls) \in Nat BY DEF CallsOK
<1>2. DOMAIN s = DOMAIN calls OBVIOUS
<1>3. s \in [1 .. Len(calls) -> Call] BY <1>1
<1>4. s \in Seq(Call) BY <1>1, <1>3
<1>5. Len(s) = Len(calls) BY <1>1, <1>2, <1>4, LenProperties
<1> QED BY <1>2, <1>4, <1>5 DEF CallsOK

(* A pass of the loop tests the flag and changes nothing else of a call. *)
LEMMA TestedCalls ==
  ASSUME CallsOK, calls # << >>, calls' = [calls EXCEPT ![Len(calls)].res = ack]
  PROVE  /\ calls' \in Seq(Call) /\ Len(calls') = Len(calls) /\ DOMAIN calls' = DOMAIN calls
         /\ calls'[Len(calls)].res = ack
         /\ \A i \in DOMAIN calls :
              /\ calls'[i].op = calls[i].op /\ calls'[i].all = calls[i].all
              /\ calls'[i].left = calls[i].left /\ calls'[i].out_res = calls[i].out_res
              /\ calls'[i].heard = calls[i].heard /\ calls'[i].doubt = calls[i].doubt
              /\ calls'[i].none = calls[i].none
              /\ calls'[i].res => ack \/ calls[i].res
<1> DEFINE n == Len(calls)
<1>1. n \in DOMAIN calls /\ calls \in Seq(Call) /\ calls[n] \in Call /\ ack \in BOOLEAN
  BY OuterCalls DEF CallsOK
<1>2. [calls[n] EXCEPT !.res = ack] \in Call BY <1>1, Zenon DEF Call
<1>3. /\ calls' \in Seq(Call) /\ Len(calls') = n /\ DOMAIN calls' = DOMAIN calls
      /\ \A i \in DOMAIN calls : calls'[i] = IF i = n THEN [calls[n] EXCEPT !.res = ack] ELSE calls[i]
  BY <1>1, <1>2
<1>4. LET c == [calls[n] EXCEPT !.res = ack] IN
      /\ c.op = calls[n].op /\ c.all = calls[n].all /\ c.left = calls[n].left
      /\ c.out_res = calls[n].out_res /\ c.res = ack /\ c.heard = calls[n].heard
      /\ c.doubt = calls[n].doubt /\ c.none = calls[n].none
  BY <1>1, Zenon DEF Call
<1> HIDE DEF n
<1>5. ASSUME NEW i \in DOMAIN calls
      PROVE  /\ calls'[i].op = calls[i].op /\ calls'[i].all = calls[i].all
             /\ calls'[i].left = calls[i].left /\ calls'[i].out_res = calls[i].out_res
             /\ calls'[i].heard = calls[i].heard /\ calls'[i].doubt = calls[i].doubt
             /\ calls'[i].none = calls[i].none
             /\ calls'[i].res => ack \/ calls[i].res
  <2>1. CASE i = n
    <3>1. calls'[i] = [calls[n] EXCEPT !.res = ack] BY <1>3, <2>1
    <3> QED BY <1>4, <2>1, <3>1, Zenon
  <2>2. CASE i # n BY <1>3, <2>2
  <2> QED BY <2>1, <2>2
<1>6. calls'[n].res = ack
  <2>1. calls'[n] = [calls[n] EXCEPT !.res = ack] BY <1>1, <1>3
  <2> QED BY <1>4, <2>1, Zenon
<1> QED BY <1>1, <1>3, <1>5, <1>6 DEF n

(* So does an acknowledge parsed. *)
LEMMA HeardCalls ==
  ASSUME CallsOK, calls' = [i \in DOMAIN calls |-> [calls[i] EXCEPT !.heard = TRUE]]
  PROVE  /\ calls' \in Seq(Call) /\ Len(calls') = Len(calls) /\ DOMAIN calls' = DOMAIN calls
         /\ \A i \in DOMAIN calls :
              /\ calls'[i].op = calls[i].op /\ calls'[i].all = calls[i].all
              /\ calls'[i].left = calls[i].left /\ calls'[i].out_res = calls[i].out_res
              /\ calls'[i].res = calls[i].res /\ calls'[i].doubt = calls[i].doubt
              /\ calls'[i].none = calls[i].none /\ calls'[i].heard
<1>1. ASSUME NEW c \in Call
      PROVE  LET d == [c EXCEPT !.heard = TRUE] IN
             /\ d \in Call /\ d.op = c.op /\ d.all = c.all /\ d.left = c.left
             /\ d.out_res = c.out_res /\ d.res = c.res /\ d.doubt = c.doubt
             /\ d.none = c.none /\ d.heard
  <2>1. [c EXCEPT !.heard = TRUE] \in Call BY Zenon DEF Call
  <2> QED BY <2>1, Zenon DEF Call
<1>2. ASSUME NEW i \in DOMAIN calls
      PROVE  /\ calls'[i] \in Call
             /\ calls'[i].op = calls[i].op /\ calls'[i].all = calls[i].all
             /\ calls'[i].left = calls[i].left /\ calls'[i].out_res = calls[i].out_res
             /\ calls'[i].res = calls[i].res /\ calls'[i].doubt = calls[i].doubt
             /\ calls'[i].none = calls[i].none /\ calls'[i].heard
  <2>1. calls[i] \in Call BY DEF CallsOK
  <2>2. calls'[i] = [calls[i] EXCEPT !.heard = TRUE] OBVIOUS
  <2> QED BY <1>1, <2>1, <2>2, Zenon
<1>3. calls' = [i \in DOMAIN calls |-> calls'[i]] OBVIOUS
<1> QED BY <1>2, <1>3, MappedCalls

(* And a mode loaded. *)
LEMMA ModeSeenCalls ==
  ASSUME CallsOK,
         calls' = [i \in DOMAIN calls |-> [calls[i] EXCEPT !.none = @ \/ rtk_mode' = "NONE"]]
  PROVE  /\ calls' \in Seq(Call) /\ Len(calls') = Len(calls) /\ DOMAIN calls' = DOMAIN calls
         /\ \A i \in DOMAIN calls :
              /\ calls'[i].op = calls[i].op /\ calls'[i].all = calls[i].all
              /\ calls'[i].left = calls[i].left /\ calls'[i].out_res = calls[i].out_res
              /\ calls'[i].res = calls[i].res /\ calls'[i].doubt = calls[i].doubt
              /\ calls'[i].heard = calls[i].heard
              /\ calls'[i].none <=> calls[i].none \/ rtk_mode' = "NONE"
<1>1. ASSUME NEW c \in Call, NEW b \in BOOLEAN
      PROVE  LET d == [c EXCEPT !.none = b] IN
             /\ d \in Call /\ d.op = c.op /\ d.all = c.all /\ d.left = c.left
             /\ d.out_res = c.out_res /\ d.res = c.res /\ d.doubt = c.doubt
             /\ d.heard = c.heard /\ d.none = b
  <2>1. [c EXCEPT !.none = b] \in Call BY Zenon DEF Call
  <2> QED BY <2>1, Zenon DEF Call
<1>2. ASSUME NEW i \in DOMAIN calls
      PROVE  /\ calls'[i] \in Call
             /\ calls'[i].op = calls[i].op /\ calls'[i].all = calls[i].all
             /\ calls'[i].left = calls[i].left /\ calls'[i].out_res = calls[i].out_res
             /\ calls'[i].res = calls[i].res /\ calls'[i].doubt = calls[i].doubt
             /\ calls'[i].heard = calls[i].heard
             /\ calls'[i].none <=> calls[i].none \/ rtk_mode' = "NONE"
  <2> DEFINE b == calls[i].none \/ rtk_mode' = "NONE"
  <2>1. calls[i] \in Call BY DEF CallsOK
  <2>2. calls'[i] = [calls[i] EXCEPT !.none = b] OBVIOUS
  <2>3. b \in BOOLEAN BY Zenon
  <2>4. b <=> calls[i].none \/ rtk_mode' = "NONE" BY Zenon
  <2> HIDE DEF b
  <2> DEFINE d == [calls[i] EXCEPT !.none = b]
  <2>5. /\ d \in Call /\ d.op = calls[i].op /\ d.all = calls[i].all
        /\ d.left = calls[i].left /\ d.out_res = calls[i].out_res
        /\ d.res = calls[i].res /\ d.doubt = calls[i].doubt
        /\ d.heard = calls[i].heard /\ d.none = b
    BY <1>1, <2>1, <2>3, ZenonT(60)
  <2>6. calls'[i] = d BY <2>2
  <2> HIDE DEF d
  <2> QED BY <2>4, <2>5, <2>6, ZenonT(60)
<1>3. calls' = [i \in DOMAIN calls |-> calls'[i]] OBVIOUS
<1> QED BY <1>2, <1>3, MappedCalls

(* And a message of another, which only adds to the doubts.                *)
LEMMA DisturbedCalls ==
  ASSUME CallsOK, NEW m
  PROVE  /\ Disturbed(m) \in Seq(Call) /\ Len(Disturbed(m)) = Len(calls)
         /\ DOMAIN Disturbed(m) = DOMAIN calls
         /\ \A i \in DOMAIN calls :
              /\ Disturbed(m)[i].op = calls[i].op /\ Disturbed(m)[i].all = calls[i].all
              /\ Disturbed(m)[i].left = calls[i].left
              /\ Disturbed(m)[i].out_res = calls[i].out_res
              /\ Disturbed(m)[i].res = calls[i].res /\ Disturbed(m)[i].heard = calls[i].heard
              /\ Disturbed(m)[i].none = calls[i].none
              /\ Disturbed(m)[i].doubt = calls[i].doubt \cup Doubted(calls[i], m)
<1>1. ASSUME NEW c \in Call, NEW D \in SUBSET Message
      PROVE  LET d == [c EXCEPT !.doubt = D] IN
             /\ d \in Call /\ d.op = c.op /\ d.all = c.all /\ d.left = c.left
             /\ d.out_res = c.out_res /\ d.res = c.res /\ d.heard = c.heard
             /\ d.none = c.none /\ d.doubt = D
  <2>1. [c EXCEPT !.doubt = D] \in Call BY Zenon DEF Call
  <2> QED BY <2>1, Zenon DEF Call
<1>2. ASSUME NEW i \in DOMAIN calls
      PROVE  /\ Disturbed(m)[i] \in Call
             /\ Disturbed(m)[i].op = calls[i].op /\ Disturbed(m)[i].all = calls[i].all
             /\ Disturbed(m)[i].left = calls[i].left
             /\ Disturbed(m)[i].out_res = calls[i].out_res
             /\ Disturbed(m)[i].res = calls[i].res /\ Disturbed(m)[i].heard = calls[i].heard
             /\ Disturbed(m)[i].none = calls[i].none
             /\ Disturbed(m)[i].doubt = calls[i].doubt \cup Doubted(calls[i], m)
  <2> DEFINE D == calls[i].doubt \cup Doubted(calls[i], m)
  <2>1. calls[i] \in Call /\ calls[i].left # << >> BY DEF CallsOK
  <2>2. calls[i].left \in Seq(Message) /\ calls[i].all \in Seq(Message) BY <2>1 DEF Call
  <2>3. Head(calls[i].left) \in Message BY <2>1, <2>2, HeadTailProperties
  <2>4. Messages(calls[i].all) \subseteq Message BY <2>2 DEF Messages
  <2>5. calls[i].doubt \subseteq Message BY <2>1 DEF Call
  <2>6. D \in SUBSET Message BY <2>3, <2>4, <2>5 DEF Doubted
  <2>7. Disturbed(m)[i] = [calls[i] EXCEPT !.doubt = D] BY DEF Disturbed
  <2> HIDE DEF D
  <2>8. LET d == [calls[i] EXCEPT !.doubt = D] IN
        /\ d \in Call /\ d.op = calls[i].op /\ d.all = calls[i].all /\ d.left = calls[i].left
        /\ d.out_res = calls[i].out_res /\ d.res = calls[i].res /\ d.heard = calls[i].heard
        /\ d.none = calls[i].none /\ d.doubt = D
    BY <1>1, <2>1, <2>6
  <2> QED BY <2>7, <2>8 DEF D
<1>3. Disturbed(m) = [i \in DOMAIN calls |-> Disturbed(m)[i]] BY DEF Disturbed
<1> QED BY <1>2, <1>3, MappedCalls

-----------------------------------------------------------------------------
(* What the tables promise of the messages of a set-up: none is empty, a   *)
(* reset is the first message or none, and a rover has one more after it.  *)
InOrder(op, s) ==
  /\ s # << >>
  /\ \A j \in DOMAIN s : s[j] \in Key \/ (j = 1 /\ s[j] = RESET)
  /\ op = "rover" => Len(s) > 1

(* Settings behind a reset are in order for a rover and for a base.        *)
LEMMA AfterReset ==
  ASSUME NEW t \in Seq(Key), t # << >>
  PROVE  /\ <<RESET>> \o t \in Seq(Message) /\ InOrder("rover", <<RESET>> \o t)
         /\ InOrder("base", <<RESET>> \o t)
<1> DEFINE s == <<RESET>> \o t
<1>1. RESET \in Message /\ Key \subseteq Message BY DEF Message
<1>2. t \in Seq(Message) /\ <<RESET>> \in Seq(Message) BY <1>1
<1>3. s \in Seq(Message) /\ Len(s) = Len(t) + 1 BY <1>2
<1>4. Len(t) \in Nat /\ Len(t) # 0 BY EmptySeq
<1>5. Len(s) > 1 BY <1>3, <1>4
<1>6. \A j \in DOMAIN s : s[j] \in Key \/ (j = 1 /\ s[j] = RESET) OBVIOUS
<1>7. s # << >> BY <1>5
<1> QED BY <1>3, <1>5, <1>6, <1>7 DEF InOrder

(* So are the messages of a base, even without a setting.                  *)
LEMMA BaseInOrder ==
  <<RESET>> \o BaseCfgLut \in Seq(Message) /\ InOrder("base", <<RESET>> \o BaseCfgLut)
<1>1. BaseCfgLut \in Seq(Key) BY TablesAssumption
<1>2. CASE BaseCfgLut # << >> BY <1>1, <1>2, AfterReset
<1>3. CASE BaseCfgLut = << >>
  <2>1. <<RESET>> \o BaseCfgLut = <<RESET>> BY <1>3
  <2>2. <<RESET>> \in Seq(Message) BY DEF Message
  <2>3. InOrder("base", <<RESET>>) BY DEF InOrder
  <2> QED BY <2>1, <2>2, <2>3, Zenon
<1> QED BY <1>2, <1>3

(* So are those of every set-up, with any measurement rate.                *)
LEMMA SendableInOrder ==
  ASSUME NEW op \in {"norm", "base", "rover"}, NEW rate \in BOOLEAN
  PROVE  Sendable(op, rate) \in Seq(Message) /\ InOrder(op, Sendable(op, rate))
<1>1. NormCfgLut \in Seq(Key) /\ RoverCfgLut \in Seq(Key) /\ RateLut \in Seq(Key)
      /\ NormCfgLut # << >> /\ RoverCfgLut # << >>
  BY TablesAssumption
<1>2. NormCfgLut \in Seq(Message) /\ InOrder("norm", NormCfgLut)
  BY <1>1 DEF Message, InOrder
<1>3. RoverCfgLut \o RateLut \in Seq(Key) /\ RoverCfgLut \o RateLut # << >>
  BY <1>1, ConcatProperties, EmptySeq
<1>4. (<<RESET>> \o RoverCfgLut) \o RateLut = <<RESET>> \o (RoverCfgLut \o RateLut)
  BY <1>1, ConcatAssociative
<1>5. /\ (<<RESET>> \o RoverCfgLut) \o RateLut \in Seq(Message)
      /\ InOrder("rover", (<<RESET>> \o RoverCfgLut) \o RateLut)
  BY <1>3, <1>4, AfterReset
<1>6. <<RESET>> \o RoverCfgLut \in Seq(Message) /\ InOrder("rover", <<RESET>> \o RoverCfgLut)
  BY <1>1, AfterReset
<1>7. CASE op = "norm"
  <2>1. Sendable(op, rate) = NormCfgLut BY <1>7, Zenon DEF Sendable, Setup
  <2> QED BY <1>2, <1>7, <2>1
<1>8. CASE op = "base"
  <2>1. Sendable(op, rate) = <<RESET>> \o BaseCfgLut BY <1>8, Zenon DEF Sendable, Setup
  <2> QED BY <1>8, <2>1, BaseInOrder
<1>9. CASE op = "rover"
  <2>1. \/ Sendable(op, rate) = <<RESET>> \o RoverCfgLut
        \/ Sendable(op, rate) = (<<RESET>> \o RoverCfgLut) \o RateLut
    BY <1>9, Zenon DEF Sendable, Setup
  <2> QED BY <1>5, <1>6, <1>9, <2>1
<1> QED BY <1>7, <1>8, <1>9

(* A base resets the receiver first.                                       *)
LEMMA BaseSetup == Setup("base") = <<RESET>> \o BaseCfgLut
BY Zenon DEF Setup

(* The three commands that begin a set-up.                                 *)
LEMMA Commands ==
  ASSUME ubx_cfg_set_val \/ zed_f9p_deploy_base \/ zed_f9p_deploy_rover
  PROVE  \E op \in Operation, messages \in Seq(Message), ok \in BOOLEAN :
           /\ InOrder(op, messages) /\ Begin(op, messages, ok)
           /\ ubx_on' = (IF op = "rover" THEN FALSE ELSE ubx_on)
           /\ rtk_mode' = (IF op = "base" THEN "BASE" ELSE rtk_mode)
<1>1. CASE ubx_cfg_set_val
  <2>1. PICK m \in Setting : Begin("set", <<m>>, TRUE) /\ UNCHANGED <<rtk_mode, ubx_on>>
    BY <1>1, Zenon DEF ubx_cfg_set_val, zed
  <2>2. <<m>> \in Seq(Message) /\ InOrder("set", <<m>>)
    BY TablesAssumption DEF Message, InOrder
  <2>3. "set" \in Operation /\ TRUE \in BOOLEAN BY DEF Operation
  <2> QED BY <2>1, <2>2, <2>3
<1>2. CASE zed_f9p_deploy_base
  <2>1. /\ Begin("base", <<RESET>> \o BaseCfgLut, TRUE)
        /\ ubx_on' = ubx_on /\ rtk_mode' = "BASE"
    BY <1>2, BaseSetup, Zenon DEF zed_f9p_deploy_base
  <2>2. "base" \in Operation /\ TRUE \in BOOLEAN BY DEF Operation
  <2> QED BY <2>1, <2>2, BaseInOrder
<1>3. CASE zed_f9p_deploy_rover
  <2>1. PICK rate \in BOOLEAN :
          /\ Begin("rover", Sendable("rover", rate), rate)
          /\ ubx_on' = FALSE /\ rtk_mode' = rtk_mode
    BY <1>3, Zenon DEF zed_f9p_deploy_rover
  <2>2. Sendable("rover", rate) \in Seq(Message) /\ InOrder("rover", Sendable("rover", rate))
    BY SendableInOrder
  <2>3. "rover" \in Operation BY DEF Operation
  <2> QED BY <2>1, <2>2, <2>3
<1> QED BY <1>1, <1>2, <1>3

(* What a new set-up makes of the calls.                                   *)
LEMMA BeginCalls ==
  ASSUME CallsOK, NEW op \in Operation, NEW messages \in Seq(Message), messages # << >>,
         NEW ok \in BOOLEAN, Begin(op, messages, ok)
  PROVE  LET c == NewCall(op, messages, ok)  n == Len(calls) + 1 IN
         /\ c \in Call /\ c.left # << >> /\ c.left = messages /\ Head(messages) \in Message
         /\ CallsOK' /\ Len(calls') = n /\ DOMAIN calls' = 1 .. n /\ DOMAIN calls = 1 .. Len(calls)
         /\ calls'[n] = Sends(c) /\ top' = Sends(c)
         /\ \A i \in DOMAIN calls : i \in DOMAIN calls' /\ calls'[i] = Disturbed(Head(messages))[i]
<1> DEFINE c == NewCall(op, messages, ok)  s == Disturbed(Head(messages))  d == Sends(c)
<1>0. c \in Call /\ c.left = messages BY NewCallType
<1>1. c \in Call /\ c.left = messages /\ c.left # << >> BY <1>0, Zenon
<1>2. d \in Call /\ d.left # << >> /\ Head(messages) \in Message
  <2> HIDE DEF c
  <2> QED BY <1>1, SendsFields
<1>3. /\ s \in Seq(Call) /\ Len(s) = Len(calls) /\ DOMAIN s = DOMAIN calls
      /\ \A i \in DOMAIN calls : s[i].left = calls[i].left
  BY DisturbedCalls
<1>4. calls' = Append(s, d) /\ ack' = FALSE BY DEF Begin, ubx_send_message
<1> HIDE DEF c, s, d
<1>5. /\ calls' \in Seq(Call) /\ Len(calls') = Len(calls) + 1
      /\ DOMAIN calls' = 1 .. Len(calls) + 1 /\ calls'[Len(calls) + 1] = d
      /\ DOMAIN calls = 1 .. Len(calls)
      /\ \A i \in DOMAIN calls : i \in DOMAIN calls' /\ calls'[i] = s[i]
      /\ \A i \in DOMAIN calls' : (i \in DOMAIN calls /\ calls'[i] = s[i]) \/ calls'[i] = d
  BY <1>2, <1>3, <1>4, AppendSeq
<1>6. \A i \in DOMAIN calls' : calls'[i].left # << >>
  BY <1>2, <1>3, <1>5 DEF CallsOK
<1>7. top' = d BY <1>5 DEF top
<1> QED BY <1>1, <1>2, <1>4, <1>5, <1>6, <1>7 DEF CallsOK, c, s, d

-----------------------------------------------------------------------------
(* While the flag is set, every call has heard an acknowledge since it     *)
(* last sent, because each message sent, by whichever call or task, clears *)
(* the one flag.                                                           *)
FlagIsFresh == ack => \A i \in DOMAIN calls : calls[i].heard

Heard == FlagIsFresh /\ HeardSinceSent

IInv == CallsOK /\ Heard

(* A message sent for the call at the top clears the flag for all calls.   *)
LEMMA TopSendsHeard ==
  ASSUME IInv, NEW c, TopSends(c)
  PROVE  IInv'
<1>1. /\ CallsOK' /\ DOMAIN calls' = DOMAIN calls
      /\ \A i \in DOMAIN calls : i # Len(calls) => calls'[i] = calls[i]
      /\ calls'[Len(calls)] = Sends(c)
  BY TopSendsCalls DEF IInv
<1>2. Sends(c).res = FALSE BY SendsFields DEF TopSends
<1>3. ack' = FALSE BY DEF TopSends, ubx_send_message
<1>4. ASSUME NEW i \in DOMAIN calls', calls'[i].res PROVE calls'[i].heard
  BY <1>1, <1>2, <1>4 DEF IInv, Heard, HeardSinceSent
<1> QED BY <1>1, <1>3, <1>4 DEF IInv, Heard, FlagIsFresh, HeardSinceSent

(* Every step keeps what the flag says.                                    *)
LEMMA NextInv == IInv /\ [Next]_vars => IInv'
<1> SUFFICES ASSUME IInv, [Next]_vars PROVE IInv'
  OBVIOUS
<1>1. CallsOK BY DEF IInv
<1>2. ASSUME UNCHANGED <<calls, ack>> PROVE IInv'
  BY <1>2 DEF IInv, CallsOK, Heard, FlagIsFresh, HeardSinceSent
<1>3. CASE NextPass
  <2>1. /\ calls # << >> /\ ack' = ack /\ calls' = [calls EXCEPT ![Len(calls)].res = ack]
    BY <1>3, Zenon DEF NextPass
  <2>2. /\ calls' \in Seq(Call) /\ DOMAIN calls' = DOMAIN calls
        /\ \A i \in DOMAIN calls :
             /\ calls'[i].left = calls[i].left /\ calls'[i].heard = calls[i].heard
             /\ calls'[i].res => ack \/ calls[i].res
    BY <1>1, <2>1, TestedCalls
  <2>3. CallsOK' BY <1>1, <2>1, <2>2 DEF CallsOK
  <2>4. FlagIsFresh' BY <2>1, <2>2 DEF IInv, Heard, FlagIsFresh
  <2>5. HeardSinceSent' BY <2>2 DEF IInv, Heard, FlagIsFresh, HeardSinceSent
  <2> QED BY <2>3, <2>4, <2>5 DEF IInv, Heard
<1>4. CASE TryAgain BY <1>1, <1>4, TryAgainSends, TopSendsHeard
<1>5. CASE NextMessage BY <1>1, <1>5, NextMessageSends, TopSendsHeard
<1>6. CASE SetupEnds
  <2>1. calls # << >> /\ calls' = Outer /\ ack' = ack
    BY <1>6 DEF SetupEnds, TryEnds
  <2>2. Outer \in Seq(Call) /\ \A i \in DOMAIN Outer : i \in DOMAIN calls /\ Outer[i] = calls[i]
    BY <1>1, <2>1, OuterCalls
  <2> QED BY <2>1, <2>2 DEF IInv, CallsOK, Heard, FlagIsFresh, HeardSinceSent
<1>7. CASE ubx_cfg_set_val \/ zed_f9p_deploy_base \/ zed_f9p_deploy_rover
  <2>1. PICK op \in Operation, messages \in Seq(Message), ok \in BOOLEAN :
          InOrder(op, messages) /\ Begin(op, messages, ok)
    BY <1>7, Commands
  <2> DEFINE c == NewCall(op, messages, ok)
  <2>2. /\ c \in Call /\ c.left # << >> /\ CallsOK'
        /\ DOMAIN calls' = 1 .. Len(calls) + 1 /\ DOMAIN calls = 1 .. Len(calls)
        /\ calls'[Len(calls) + 1] = Sends(c)
        /\ \A i \in DOMAIN calls : calls'[i] = Disturbed(Head(messages))[i]
    BY <1>1, <2>1, BeginCalls DEF InOrder
  <2> HIDE DEF c
  <2>3. Sends(c).res = FALSE BY <2>2, SendsFields, Zenon
  <2>4. \A i \in DOMAIN calls : calls'[i].res = calls[i].res /\ calls'[i].heard = calls[i].heard
    BY <1>1, <2>2, DisturbedCalls
  <2>5. ack' = FALSE BY <2>1 DEF Begin, ubx_send_message
  <2>6. ASSUME NEW i \in DOMAIN calls', calls'[i].res PROVE calls'[i].heard
    <3>2. Len(calls) \in Nat BY <1>1 DEF CallsOK
    <3>3. i # Len(calls) + 1 BY <2>2, <2>3, <2>6
    <3>1. i \in DOMAIN calls
      <4> DEFINE n == Len(calls)
      <4>1. i \in 1 .. n + 1 /\ DOMAIN calls = 1 .. n /\ n \in Nat /\ i # n + 1
        BY <2>2, <2>6, <3>2, <3>3
      <4> HIDE DEF n
      <4> QED BY <4>1
    <3> QED BY <2>4, <2>6, <3>1 DEF IInv, Heard, HeardSinceSent
  <2> QED BY <2>2, <2>5, <2>6 DEF IInv, Heard, FlagIsFresh, HeardSinceSent
<1>8. CASE deploy_base_invalid
  <2>1. /\ calls' = [i \in DOMAIN calls |-> [calls[i] EXCEPT !.none = @ \/ rtk_mode' = "NONE"]]
        /\ ack' = ack
    BY <1>8, Zenon DEF deploy_base_invalid
  <2>2. /\ calls' \in Seq(Call) /\ DOMAIN calls' = DOMAIN calls
        /\ \A i \in DOMAIN calls :
             /\ calls'[i].left = calls[i].left
             /\ calls'[i].res = calls[i].res /\ calls'[i].heard = calls[i].heard
    BY <1>1, <2>1, ModeSeenCalls
  <2> QED BY <2>1, <2>2 DEF IInv, CallsOK, Heard, FlagIsFresh, HeardSinceSent
<1>9. CASE proc_uart1
  <2>1. CASE ack' = TRUE /\ calls' = [i \in DOMAIN calls |-> [calls[i] EXCEPT !.heard = TRUE]]
    <3>1. /\ calls' \in Seq(Call) /\ DOMAIN calls' = DOMAIN calls
          /\ \A i \in DOMAIN calls : calls'[i].left = calls[i].left /\ calls'[i].heard
      BY <1>1, <2>1, HeardCalls
    <3> QED BY <2>1, <3>1 DEF IInv, CallsOK, Heard, FlagIsFresh, HeardSinceSent
  <2>2. CASE UNCHANGED <<ack, calls>> BY <1>2, <2>2
  <2> QED BY <1>9, <2>1, <2>2, Zenon DEF proc_uart1
<1>10. CASE ubx_proc
  <2>1. ack' = FALSE /\ (calls' = calls \/ calls' = Disturbed("POLL"))
    BY <1>10, Zenon DEF ubx_proc, ubx_send_message
  <2>2. /\ calls' \in Seq(Call) /\ DOMAIN calls' = DOMAIN calls
        /\ \A i \in DOMAIN calls :
             /\ calls'[i].left = calls[i].left
             /\ calls'[i].res = calls[i].res /\ calls'[i].heard = calls[i].heard
    BY <1>1, <2>1, DisturbedCalls DEF CallsOK
  <2> QED BY <2>1, <2>2 DEF IInv, CallsOK, Heard, FlagIsFresh, HeardSinceSent
<1>11. CASE zed_f9p_proc \/ Receives \/ Refuses \/ AnswerLost \/ TimeOut
  BY <1>2, <1>11 DEF zed_f9p_proc, Receives, Refuses, AnswerLost, TimeOut
<1>12. CASE UNCHANGED vars BY <1>2, <1>12 DEF vars
<1> QED
  BY <1>3, <1>4, <1>5, <1>6, <1>7, <1>8, <1>9, <1>10, <1>11, <1>12 DEF Next, Host

(* The set-up the initialization begins.                                   *)
LEMMA InitCalls ==
  ASSUME Init
  PROVE  \/ calls = << >> /\ toReceiver = << >>
         \/ \E op \in {"norm", "base", "rover"}, messages \in Seq(Message), ok \in BOOLEAN :
              /\ InOrder(op, messages)
              /\ calls = <<NewCall(op, messages, ok)>> /\ toReceiver = <<Head(messages)>>
              /\ op = "rover" => ubx_on = FALSE
<1>1. rtk_mode \in Mode BY DEF Init
<1>2. InitOp \in {"norm", "base", "rover"} /\ (InitOp = "rover" => rtk_mode = "ROVER")
  BY <1>1 DEF InitOp, Mode
<1>3. CASE calls = << >> /\ toReceiver = << >> BY <1>3
<1>4. ASSUME NEW rate \in BOOLEAN,
             calls = <<NewCall(InitOp, Sendable(InitOp, rate), InitOp = "rover" => rate)>>,
             toReceiver = <<Head(Sendable(InitOp, rate))>>, ubx_on = (rtk_mode # "ROVER")
      PROVE  \E op \in {"norm", "base", "rover"}, messages \in Seq(Message), ok \in BOOLEAN :
               /\ InOrder(op, messages)
               /\ calls = <<NewCall(op, messages, ok)>> /\ toReceiver = <<Head(messages)>>
               /\ op = "rover" => ubx_on = FALSE
  <2>1. Sendable(InitOp, rate) \in Seq(Message) /\ InOrder(InitOp, Sendable(InitOp, rate))
    BY <1>2, SendableInOrder
  <2>2. (InitOp = "rover" => rate) \in BOOLEAN OBVIOUS
  <2>3. InitOp = "rover" => ubx_on = FALSE BY <1>2, <1>4
  <2> QED BY <1>2, <1>4, <2>1, <2>2, <2>3, Zenon
<1> QED BY <1>3, <1>4, Zenon DEF Init, zed_f9p_init

(* It holds before any acknowledge.                                        *)
LEMMA InitInv == Init => IInv
<1> SUFFICES ASSUME Init PROVE IInv OBVIOUS
<1>1. ack = FALSE BY DEF Init
<1>2. CASE calls = << >>
  <2>1. calls \in Seq(Call) /\ DOMAIN calls = {} BY <1>2, EmptySeq
  <2> QED BY <1>1, <2>1 DEF IInv, CallsOK, Heard, FlagIsFresh, HeardSinceSent
<1>3. ASSUME NEW op \in Operation, NEW messages \in Seq(Message),
             NEW ok \in BOOLEAN, InOrder(op, messages), calls = <<NewCall(op, messages, ok)>>
      PROVE  IInv
  <2> DEFINE c == NewCall(op, messages, ok)
  <2>6. messages # << >> BY <1>3 DEF InOrder
  <2>4. c \in Call /\ c.left = messages BY NewCallType
  <2>7. c.res = FALSE BY DEF NewCall
  <2>5. c \in Call /\ c.left = messages /\ c.res = FALSE BY <2>4, <2>7, Zenon
  <2>2. c \in Call /\ c.left # << >> /\ c.res = FALSE BY <2>5, <2>6, Zenon
  <2>3. calls = <<c>> BY <1>3
  <2> HIDE DEF c
  <2>8. calls \in Seq(Call) /\ \A i \in DOMAIN calls : calls[i] = c BY <2>2, <2>3
  <2> QED BY <1>1, <2>2, <2>8 DEF IInv, CallsOK, Heard, FlagIsFresh, HeardSinceSent
<1> QED BY <1>2, <1>3, InitCalls DEF Operation

(* No try is counted as acknowledged by an answer from before its message  *)
(* was last sent (ubx_wait_ack).                                           *)
THEOREM HeardSinceSentHolds == Spec => []HeardSinceSent
<1>1. IInv => HeardSinceSent BY DEF IInv, Heard
<1> QED BY <1>1, InitInv, NextInv, PTL DEF Spec

-----------------------------------------------------------------------------
(* What a step may do with the calls: it leaves the work of each as it is, *)
(* sends the message of the innermost again or its next one, ends the      *)
(* innermost, or begins one inside all others.                             *)
Alike ==
  /\ Len(calls') = Len(calls) /\ DOMAIN calls' = DOMAIN calls
  /\ \A i \in DOMAIN calls :
       /\ calls'[i].op = calls[i].op /\ calls'[i].all = calls[i].all
       /\ calls'[i].left = calls[i].left

TopGoesOn ==
  \E c : /\ TopSends(c)
         /\ c.left = top.left \/ (Len(top.left) > 1 /\ c.left = Tail(top.left))

TopEnds == calls # << >> /\ calls' = Outer

Begins ==
  \E op \in Operation, messages \in Seq(Message), ok \in BOOLEAN :
    InOrder(op, messages) /\ Begin(op, messages, ok)

(* Every step does one of these.                                           *)
LEMMA CallsStep == CallsOK /\ [Next]_vars => Alike \/ TopGoesOn \/ TopEnds \/ Begins
<1> SUFFICES ASSUME CallsOK, [Next]_vars PROVE Alike \/ TopGoesOn \/ TopEnds \/ Begins
  OBVIOUS
<1>1. CASE NextPass
  <2>1. calls # << >> /\ calls' = [calls EXCEPT ![Len(calls)].res = ack]
    BY <1>1, Zenon DEF NextPass
  <2> QED BY <2>1, TestedCalls, Zenon DEF Alike
<1>2. CASE TryAgain BY <1>2, TryAgainSends, Zenon DEF TopGoesOn
<1>3. CASE NextMessage BY <1>3, NextMessageSends, Zenon DEF TopGoesOn
<1>4. CASE SetupEnds BY <1>4 DEF SetupEnds, TryEnds, TopEnds
<1>5. CASE ubx_cfg_set_val \/ zed_f9p_deploy_base \/ zed_f9p_deploy_rover
  BY <1>5, Commands, Zenon DEF Begins
<1>6. CASE deploy_base_invalid
  <2>1. calls' = [i \in DOMAIN calls |-> [calls[i] EXCEPT !.none = @ \/ rtk_mode' = "NONE"]]
    BY <1>6, Zenon DEF deploy_base_invalid
  <2> QED BY <2>1, ModeSeenCalls, Zenon DEF Alike
<1>7. ASSUME calls' = calls PROVE Alike BY <1>7 DEF Alike
<1>8. CASE proc_uart1
  <2>1. CASE calls' = [i \in DOMAIN calls |-> [calls[i] EXCEPT !.heard = TRUE]]
    BY <2>1, HeardCalls, Zenon DEF Alike
  <2> QED BY <1>7, <1>8, <2>1, Zenon DEF proc_uart1
<1>9. CASE ubx_proc
  <2>1. CASE calls' = Disturbed("POLL") BY <2>1, DisturbedCalls, Zenon DEF Alike
  <2> QED BY <1>7, <1>9, <2>1, Zenon DEF ubx_proc
<1>10. CASE zed_f9p_proc \/ Receives \/ Refuses \/ AnswerLost \/ TimeOut \/ UNCHANGED vars
  BY <1>7, <1>10, Zenon DEF zed_f9p_proc, Receives, Refuses, AnswerLost, TimeOut, vars
<1> QED
  BY <1>1, <1>2, <1>3, <1>4, <1>5, <1>6, <1>8, <1>9, <1>10 DEF Next, Host

(* A call at work: what is left of its messages is the end of all of them. *)
Remains(all, left) ==
  /\ left # << >> /\ Len(left) <= Len(all)
  /\ \A j \in DOMAIN left : left[j] = all[j + Len(all) - Len(left)]

AtWork(c) == InOrder(c.op, c.all) /\ Remains(c.all, c.left)

AllAtWork == \A i \in DOMAIN calls : AtWork(calls[i])

(* All messages are the end of all messages.                               *)
LEMMA RemainsAll == \A s \in Seq(Message) : s # << >> => Remains(s, s)
BY DEF Remains

(* So is the end without its first.                                        *)
LEMMA RemainsTail ==
  ASSUME NEW all \in Seq(Message), NEW left \in Seq(Message),
         Remains(all, left), Len(left) > 1
  PROVE  Remains(all, Tail(left))
<1> DEFINE t == Tail(left)
<1>1. /\ t \in Seq(Message) /\ t # << >> /\ Len(t) = Len(left) - 1
      /\ \A j \in DOMAIN t : j + 1 \in DOMAIN left /\ t[j] = left[j + 1]
  BY TailOf
<1> HIDE DEF t
<1>2. Len(all) \in Nat /\ Len(left) \in Nat OBVIOUS
<1>3. ASSUME NEW j \in DOMAIN t PROVE t[j] = all[j + Len(all) - Len(t)]
  <2>1. t[j] = all[(j + 1) + Len(all) - Len(left)] BY <1>1, <1>3 DEF Remains
  <2>2. j \in Nat BY <1>1, <1>3
  <2>3. (j + 1) + Len(all) - Len(left) = j + Len(all) - Len(t) BY <1>1, <1>2, <2>2
  <2> QED BY <2>1, <2>3
<1>4. t # << >> /\ Len(t) <= Len(all) BY <1>1, <1>2 DEF Remains
<1> QED BY <1>3, <1>4 DEF Remains, t

(* A new set-up is at work.                                                *)
LEMMA NewAtWork ==
  ASSUME NEW op, NEW messages \in Seq(Message), InOrder(op, messages), NEW c \in Call,
         c.op = op, c.all = messages, c.left = messages
  PROVE  AtWork(c)
BY RemainsAll DEF InOrder, AtWork

(* A call that sends again, or its next message, stays at work.            *)
LEMMA TopSendsAtWork ==
  ASSUME CallsOK, AllAtWork, NEW c, TopSends(c),
         c.left = top.left \/ (Len(top.left) > 1 /\ c.left = Tail(top.left))
  PROVE  AllAtWork'
<1>1. /\ calls # << >> /\ c \in Call /\ c.left # << >> /\ c.op = top.op /\ c.all = top.all
  BY DEF TopSends
<1>2. top \in Call /\ AtWork(top) BY <1>1, OuterCalls DEF AllAtWork
<1>3. top.left \in Seq(Message) /\ top.all \in Seq(Message) BY <1>2 DEF Call
<1>4. Remains(top.all, c.left) BY <1>2, <1>3, RemainsTail DEF AtWork
<1>5. AtWork(Sends(c))
  <2>1. Sends(c).op = top.op /\ Sends(c).all = top.all /\ Sends(c).left = c.left
    BY <1>1, SendsFields
  <2> QED BY <1>2, <1>4, <2>1 DEF AtWork
<1>6. /\ DOMAIN calls' = DOMAIN calls /\ calls'[Len(calls)] = Sends(c)
      /\ \A i \in DOMAIN calls : i # Len(calls) => calls'[i] = calls[i]
  BY TopSendsCalls
<1> QED BY <1>5, <1>6 DEF AllAtWork

(* Every step leaves every call at work.                                   *)
LEMMA NextAtWork == CallsOK /\ AllAtWork /\ [Next]_vars => AllAtWork'
<1> SUFFICES ASSUME CallsOK, AllAtWork, [Next]_vars PROVE AllAtWork'
  OBVIOUS
<1>1. CASE Alike
  <2>1. ASSUME NEW i \in DOMAIN calls' PROVE AtWork(calls'[i])
    <3>1. i \in DOMAIN calls BY <1>1, <2>1 DEF Alike
    <3> QED BY <1>1, <3>1 DEF Alike, AllAtWork, AtWork
  <2> QED BY <2>1 DEF AllAtWork
<1>2. CASE TopGoesOn BY <1>2, TopSendsAtWork DEF TopGoesOn
<1>3. CASE TopEnds BY <1>3, OuterCalls DEF TopEnds, AllAtWork
<1>4. CASE Begins
  <2>1. PICK op \in Operation, messages \in Seq(Message), ok \in BOOLEAN :
          InOrder(op, messages) /\ Begin(op, messages, ok)
    BY <1>4 DEF Begins
  <2> DEFINE c == NewCall(op, messages, ok)
  <2>2. messages # << >> BY <2>1 DEF InOrder
  <2>3. /\ c \in Call /\ c.left # << >> /\ c.left = messages
        /\ DOMAIN calls' = 1 .. Len(calls) + 1 /\ DOMAIN calls = 1 .. Len(calls)
        /\ calls'[Len(calls) + 1] = Sends(c)
        /\ \A i \in DOMAIN calls : calls'[i] = Disturbed(Head(messages))[i]
    BY <2>1, <2>2, BeginCalls
  <2>4. c.op = op /\ c.all = messages BY DEF NewCall
  <2> HIDE DEF c
  <2>5. Sends(c) \in Call /\ Sends(c).op = op /\ Sends(c).all = messages /\ Sends(c).left = messages
    BY <2>3, <2>4, SendsFields
  <2>6. AtWork(Sends(c)) BY <2>1, <2>5, NewAtWork
  <2>7. \A i \in DOMAIN calls : AtWork(calls'[i])
    BY <2>3, DisturbedCalls DEF AllAtWork, AtWork
  <2>8. ASSUME NEW i \in DOMAIN calls' PROVE AtWork(calls'[i])
    <3>1. Len(calls) \in Nat BY DEF CallsOK
    <3> DEFINE n == Len(calls)
    <3>2. i \in 1 .. n + 1 /\ DOMAIN calls = 1 .. n /\ n \in Nat BY <2>3, <2>8, <3>1
    <3> HIDE DEF n
    <3>3. i \in DOMAIN calls \/ i = n + 1 BY <3>2
    <3> QED BY <2>3, <2>6, <2>7, <3>3 DEF n
  <2> QED BY <2>8 DEF AllAtWork
<1> QED BY <1>1, <1>2, <1>3, <1>4, CallsStep

(* The set-up of the initialization is at work.                            *)
LEMMA InitAtWork == Init => AllAtWork
<1> SUFFICES ASSUME Init PROVE AllAtWork OBVIOUS
<1>1. CASE calls = << >> BY <1>1 DEF AllAtWork
<1>2. ASSUME NEW op \in Operation, NEW messages \in Seq(Message),
             NEW ok \in BOOLEAN, InOrder(op, messages), calls = <<NewCall(op, messages, ok)>>
      PROVE  AllAtWork
  <2> DEFINE c == NewCall(op, messages, ok)
  <2>4. c \in Call BY NewCallType
  <2>5. c.op = op /\ c.all = messages /\ c.left = messages BY DEF NewCall
  <2>1. c \in Call /\ c.op = op /\ c.all = messages /\ c.left = messages BY <2>4, <2>5, Zenon
  <2>2. calls = <<c>> BY <1>2
  <2> HIDE DEF c
  <2>3. AtWork(c) BY <1>2, <2>1, NewAtWork
  <2> QED BY <2>2, <2>3 DEF AllAtWork
<1> QED BY <1>1, <1>2, InitCalls DEF Operation

(* The message of a call is a setting, or the reset it begins with.        *)
LEMMA HeadOfCall ==
  ASSUME NEW c \in Call, AtWork(c)
  PROVE  /\ \/ Head(c.left) \in Key
            \/ Head(c.left) = RESET /\ Len(c.all) - Len(c.left) = 0
         /\ c.all \in Seq(Message) /\ DOMAIN c.all = 1 .. Len(c.all)
         /\ Len(c.all) \in Nat /\ Len(c.left) \in Nat /\ Len(c.left) > 0
         /\ Len(c.left) <= Len(c.all)
         /\ Len(c.all) - Len(c.left) + 1 \in DOMAIN c.all
         /\ Head(c.left) = c.all[Len(c.all) - Len(c.left) + 1]
<1> DEFINE n == Len(c.all)  m == Len(c.left)
<1>1. c.left \in Seq(Message) /\ c.all \in Seq(Message) BY DEF Call
<1>2. /\ n \in Nat /\ m \in Nat \ {0} /\ m <= n
      /\ DOMAIN c.all = 1 .. n /\ DOMAIN c.left = 1 .. m
  BY <1>1, LenProperties, EmptySeq DEF AtWork, Remains
<1>3. Head(c.left) = c.left[1] BY DEF AtWork, Remains
<1>4. Head(c.left) = c.all[1 + n - m]
  <2>1. 1 \in DOMAIN c.left
    <3> HIDE DEF n, m
    <3> QED BY <1>2
  <2> QED BY <1>3, <2>1 DEF AtWork, Remains
<1>5. \A j \in DOMAIN c.all : c.all[j] \in Key \/ (j = 1 /\ c.all[j] = RESET)
  BY DEF AtWork, InOrder
<1> HIDE DEF n, m
<1>6. n - m + 1 \in DOMAIN c.all /\ 1 + n - m = n - m + 1 /\ (n - m + 1 = 1 => n - m = 0) /\ m > 0
  BY <1>2
<1>7. Head(c.left) \in Key \/ (Head(c.left) = RESET /\ n - m = 0) BY <1>4, <1>5, <1>6
<1> QED BY <1>1, <1>2, <1>4, <1>6, <1>7 DEF n, m

-----------------------------------------------------------------------------
TypeInv == IInv /\ AllAtWork /\ TypeOK

(* What surrounds the set-up is used up one by one.                        *)
LEMMA LessOrders ==
  ASSUME env \in Environment, NEW n \in {"orders", "polls", "losses"}, env[n] > 0
  PROVE  [env EXCEPT ![n] = @ - 1] \in Environment
BY DEF Environment

(* How far the time-outs got, whatever a step does with the calls. *)
LEMMA LateStays ==
  ASSUME CallsOK, late \in 0 .. Len(calls), [Next]_vars
  PROVE  late' \in 0 .. Len(calls')
<1> DEFINE n == Len(calls)
<1>1. n \in Nat /\ late \in 0 .. n BY DEF CallsOK
<1>2. ASSUME Len(calls') = n, late' = late PROVE late' \in 0 .. Len(calls')
  BY <1>1, <1>2
<1>3. ASSUME late = n, calls # << >>, late' = late - 1, Len(calls') \in {n - 1, n}
      PROVE late' \in 0 .. Len(calls')
  <2>1. n # 0 BY <1>3, EmptySeq DEF CallsOK
  <2> HIDE DEF n
  <2> QED BY <1>1, <1>3, <2>1
<1>4. CASE NextPass
  <2>1. calls # << >> /\ calls' = [calls EXCEPT ![Len(calls)].res = ack] /\ late' = late
    BY <1>4, Zenon DEF NextPass
  <2>2. Len(calls') = n BY <2>1, TestedCalls
  <2> QED BY <1>2, <2>1, <2>2
<1>5. CASE TryAgain
  <2>1. PICK c : TopSends(c) BY <1>5, TryAgainSends
  <2>2. late = n /\ late' = late - 1 BY <1>5, TryAgainSends DEF Expired
  <2>3. Len(calls') = n BY <2>1, TopSendsCalls
  <2>4. calls # << >> BY <2>1 DEF TopSends
  <2> QED BY <1>3, <2>2, <2>3, <2>4
<1>6. CASE NextMessage
  <2>0. PICK ok \in BOOLEAN : \E c :
          TryEnds(ok) /\ late' = (IF ok THEN late ELSE late - 1) /\ TopSends(c)
    BY <1>6, NextMessageSends, Zenon
  <2>1. PICK c :
          TryEnds(ok) /\ late' = (IF ok THEN late ELSE late - 1) /\ TopSends(c)
    BY <2>0
  <2>2. Len(calls') = n BY <2>1, TopSendsCalls
  <2>3. calls # << >> BY <2>1 DEF TopSends
  <2>4. ~ok => late = n BY <2>1 DEF TryEnds, Expired
  <2>5. CASE ok BY <1>2, <2>1, <2>2, <2>5
  <2>6. CASE ~ok
    <3>1. late' = late - 1 BY <2>1, <2>6
    <3> QED BY <1>3, <2>2, <2>3, <2>4, <2>6, <3>1
  <2> QED BY <2>5, <2>6
<1>7. CASE SetupEnds
  <2>1. PICK ok \in BOOLEAN :
          TryEnds(ok) /\ calls' = Outer /\ late' = IF ok THEN late ELSE late - 1
    BY <1>7, Zenon DEF SetupEnds
  <2>2. calls # << >> /\ (ok <=> late # n) BY <2>1 DEF TryEnds, Expired
  <2>3. Len(calls') = n - 1 BY <2>1, <2>2, OuterCalls
  <2>4. CASE ok
    <3>1. late' = late /\ late # n BY <2>1, <2>2, <2>4
    <3> HIDE DEF n
    <3> QED BY <1>1, <2>3, <3>1
  <2>5. CASE ~ok
    <3>1. late' = late - 1 /\ late = n BY <2>1, <2>2, <2>5
    <3> QED BY <1>3, <2>2, <2>3, <3>1
  <2> QED BY <2>4, <2>5
<1>8. CASE ubx_cfg_set_val \/ zed_f9p_deploy_base \/ zed_f9p_deploy_rover
  <2>1. PICK op \in Operation, messages \in Seq(Message), ok \in BOOLEAN :
          InOrder(op, messages) /\ Begin(op, messages, ok)
    BY <1>8, Commands
  <2>2. Len(calls') = n + 1 BY <2>1, BeginCalls DEF InOrder
  <2>3. late' = late BY <2>1 DEF Begin
  <2> HIDE DEF n
  <2> QED BY <1>1, <2>2, <2>3
<1>9. CASE deploy_base_invalid
  <2>1. /\ calls' = [i \in DOMAIN calls |-> [calls[i] EXCEPT !.none = @ \/ rtk_mode' = "NONE"]]
        /\ late' = late
    BY <1>9, Zenon DEF deploy_base_invalid
  <2>2. Len(calls') = n BY <2>1, ModeSeenCalls
  <2> QED BY <1>2, <2>1, <2>2
<1>10. CASE proc_uart1
  <2>1. late' = late BY <1>10, Zenon DEF proc_uart1
  <2>2. CASE calls' = [i \in DOMAIN calls |-> [calls[i] EXCEPT !.heard = TRUE]]
    BY <1>2, <2>1, <2>2, HeardCalls
  <2> QED BY <1>2, <1>10, <2>1, <2>2, Zenon DEF proc_uart1
<1>11. CASE ubx_proc
  <2>1. late' = late /\ (calls' = calls \/ calls' = Disturbed("POLL"))
    BY <1>11, Zenon DEF ubx_proc
  <2>2. Len(calls') = n BY <2>1, DisturbedCalls
  <2> QED BY <1>2, <2>1, <2>2
<1>12. CASE TimeOut
  <2>1. late < n /\ late' = late + 1 /\ calls' = calls BY <1>12 DEF TimeOut
  <2>2. Len(calls') = n BY <2>1
  <2> HIDE DEF n
  <2> QED BY <1>1, <2>1, <2>2
<1>13. CASE zed_f9p_proc \/ Receives \/ Refuses \/ AnswerLost \/ UNCHANGED vars
  BY <1>13 DEF zed_f9p_proc, Receives, Refuses, AnswerLost, vars
<1> QED
  BY <1>4, <1>5, <1>6, <1>7, <1>8, <1>9, <1>10, <1>11, <1>12, <1>13 DEF Next, Host

(* No report is a report.                                                  *)
LEMMA NoReportType == NoReport \in Report
<1>1. /\ "nothing" \in Operation \cup {"nothing"} /\ << >> \in Seq(Message) /\ FALSE \in BOOLEAN
      /\ {} \in SUBSET Message
  BY EmptySeq
<1> QED BY <1>1, Zenon DEF NoReport, Report

(* All but the calls and time-outs. *)
OthersOK ==
  /\ env \in Environment
  /\ rtk_mode \in Mode /\ ubx_on \in BOOLEAN
  /\ poll \in DOMAIN PollLut
  /\ toReceiver \in Seq(Message) /\ toHost \in Seq(Message)
  /\ cfg \subseteq Message
  /\ report \in Report

(* What is sent is a message.                                              *)
LEMMA SentType ==
  ASSUME OthersOK, NEW m \in Message, ubx_send_message(m) PROVE toReceiver' \in Seq(Message)
BY AppendProperties DEF OthersOK, ubx_send_message

(* A message sent by the call at the top keeps the types.                  *)
LEMMA TopSendsType == ASSUME CallsOK, OthersOK, NEW c, TopSends(c) PROVE OthersOK'
<1>1. /\ c \in Call /\ c.left # << >> /\ ubx_send_message(Head(c.left)) /\ report' = NoReport
      /\ UNCHANGED <<env, rtk_mode, ubx_on, poll, toHost, cfg>>
  BY DEF TopSends
<1>2. Head(c.left) \in Message BY <1>1, SendsFields
<1> QED BY <1>1, <1>2, SentType, NoReportType DEF OthersOK

(* Every step keeps the types of all but the calls and time-outs.          *)
LEMMA NextOthers == CallsOK /\ OthersOK /\ [Next]_vars => OthersOK'
<1> SUFFICES ASSUME CallsOK, OthersOK, [Next]_vars PROVE OthersOK'
  OBVIOUS
<1>1. CASE NextPass BY <1>1, NoReportType DEF NextPass, OthersOK, zed, wire
<1>2. CASE TryAgain BY <1>2, TryAgainSends, TopSendsType
<1>3. CASE NextMessage BY <1>3, NextMessageSends, TopSendsType
<1>4. CASE SetupEnds
  <2>1. PICK ok \in BOOLEAN :
          /\ TryEnds(ok)
          /\ rtk_mode' = IF top.op = "base" THEN "BASE" ELSE rtk_mode
          /\ report' = [op |-> top.op, all |-> top.all, ok |-> OutRes(ok), sent |-> TRUE,
                        doubt |-> top.doubt, none |-> top.none]
          /\ UNCHANGED <<env, ubx_on, poll, wire, cfg>>
    BY <1>4, Zenon DEF SetupEnds
  <2>2. calls # << >> BY <2>1 DEF TryEnds
  <2>3. top \in Call /\ OutRes(ok) \in BOOLEAN BY <2>2, OuterCalls, OutResType
  <2>4. report' \in Report BY <2>1, <2>3, Zenon DEF Call, Report
  <2>5. rtk_mode' \in Mode BY <2>1 DEF OthersOK, Mode
  <2> QED BY <2>1, <2>4, <2>5 DEF OthersOK, wire
<1>5. CASE ubx_cfg_set_val \/ zed_f9p_deploy_base \/ zed_f9p_deploy_rover
  <2>1. PICK op \in Operation, messages \in Seq(Message), ok \in BOOLEAN :
          /\ InOrder(op, messages) /\ Begin(op, messages, ok)
          /\ ubx_on' = (IF op = "rover" THEN FALSE ELSE ubx_on)
          /\ rtk_mode' = (IF op = "base" THEN "BASE" ELSE rtk_mode)
    BY <1>5, Commands
  <2>2. env' \in Environment BY <2>1, LessOrders DEF Begin, OthersOK
  <2>3. Head(messages) \in Message BY <2>1, HeadTailProperties DEF InOrder
  <2>4. toReceiver' \in Seq(Message) BY <2>1, <2>3, SentType DEF Begin
  <2>5. rtk_mode' \in Mode /\ ubx_on' \in BOOLEAN BY <2>1 DEF OthersOK, Mode
  <2> QED BY <2>1, <2>2, <2>4, <2>5, NoReportType DEF Begin, OthersOK
<1>6. CASE deploy_base_invalid
  <2>1. env' \in Environment BY <1>6, LessOrders DEF deploy_base_invalid, OthersOK
  <2>2. PICK ok \in BOOLEAN : report' = [NoReport EXCEPT !.op = "base", !.all = Setup("base"), !.ok = ok]
    BY <1>6, Zenon DEF deploy_base_invalid
  <2>3. Setup("base") \in Seq(Message) BY BaseSetup, BaseInOrder
  <2>4. "base" \in Operation \cup {"nothing"} BY DEF Operation
  <2>5. report' \in Report BY <2>2, <2>3, <2>4, NoReportType, Zenon DEF Report
  <2> QED BY <1>6, <2>1, <2>5 DEF deploy_base_invalid, OthersOK, wire
<1>7. CASE proc_uart1
  <2>1. toHost' \in Seq(Message) BY <1>7, HeadTailProperties DEF proc_uart1, OthersOK
  <2> QED BY <1>7, <2>1, NoReportType DEF proc_uart1, OthersOK, zed
<1>8. CASE ubx_proc
  <2>1. env' \in Environment BY <1>8, LessOrders DEF ubx_proc, OthersOK
  <2>2. PollLut[poll] \in Message /\ poll' \in DOMAIN PollLut
    BY <1>8 DEF ubx_proc, OthersOK, PollLut, Message
  <2>3. toReceiver' \in Seq(Message) BY <1>8, <2>2, SentType DEF ubx_proc
  <2> QED BY <1>8, <2>1, <2>2, <2>3, NoReportType DEF ubx_proc, OthersOK, zed
<1>9. CASE zed_f9p_proc
  <2>1. ubx_on' \in BOOLEAN BY <1>9 DEF zed_f9p_proc, OthersOK, Mode
  <2> QED BY <1>9, <2>1, NoReportType DEF zed_f9p_proc, OthersOK, wire
<1>10. CASE Receives
  <2>1. toReceiver # << >> /\ toReceiver \in Seq(Message) BY <1>10 DEF Receives, OthersOK
  <2>2. Head(toReceiver) \in Message /\ Tail(toReceiver) \in Seq(Message)
    BY <2>1, HeadTailProperties
  <2>3. toHost' \in Seq(Message) BY <1>10, <2>2, AppendProperties DEF Receives, OthersOK
  <2>4. cfg' \subseteq Message BY <1>10, <2>2 DEF Receives, OthersOK
  <2> QED BY <1>10, <2>2, <2>3, <2>4, NoReportType DEF Receives, OthersOK, zed
<1>11. CASE Refuses
  <2>1. env' \in Environment BY <1>11, LessOrders DEF Refuses, OthersOK
  <2>2. toReceiver' \in Seq(Message) BY <1>11, HeadTailProperties DEF Refuses, OthersOK
  <2> QED BY <1>11, <2>1, <2>2, NoReportType DEF Refuses, OthersOK, zed
<1>12. CASE AnswerLost
  <2>1. env' \in Environment BY <1>12, LessOrders DEF AnswerLost, OthersOK
  <2>2. toHost' \in Seq(Message) BY <1>12, HeadTailProperties DEF AnswerLost, OthersOK
  <2> QED BY <1>12, <2>1, <2>2, NoReportType DEF AnswerLost, OthersOK, zed
<1>13. CASE TimeOut BY <1>13, NoReportType DEF TimeOut, OthersOK, zed, wire
<1>14. CASE UNCHANGED vars BY <1>14 DEF vars, OthersOK, zed, wire
<1> QED
  BY <1>1, <1>2, <1>3, <1>4, <1>5, <1>6, <1>7, <1>8, <1>9, <1>10, <1>11, <1>12, <1>13, <1>14
  DEF Next, Host

(* Every step keeps all types.                                             *)
LEMMA NextType == TypeInv /\ [Next]_vars => TypeInv'
<1> SUFFICES ASSUME TypeInv, [Next]_vars PROVE TypeInv'
  OBVIOUS
<1>1. CallsOK /\ OthersOK /\ late \in 0 .. Len(calls)
  BY DEF TypeInv, TypeOK, IInv, OthersOK
<1>2. IInv' /\ CallsOK' BY NextInv DEF TypeInv, IInv
<1>3. AllAtWork' BY <1>1, NextAtWork DEF TypeInv
<1>4. late' \in 0 .. Len(calls') BY <1>1, LateStays
<1>5. OthersOK' BY <1>1, NextOthers
<1> QED BY <1>2, <1>3, <1>4, <1>5 DEF TypeInv, TypeOK, OthersOK, CallsOK

(* They hold at the start.                                                 *)
LEMMA InitType == Init => TypeInv
<1> SUFFICES ASSUME Init PROVE TypeInv OBVIOUS
<1>1. IInv /\ AllAtWork /\ CallsOK BY InitInv, InitAtWork DEF IInv
<1>2. env \in Environment BY EnvironmentsAssumption DEF Init
<1>3. toReceiver \in Seq(Message)
  <2>1. CASE toReceiver = << >> BY <2>1, EmptySeq
  <2>2. ASSUME NEW messages \in Seq(Message), messages # << >>, toReceiver = <<Head(messages)>>
        PROVE  toReceiver \in Seq(Message)
    <3>1. Head(messages) \in Message BY <2>2, HeadTailProperties
    <3> QED BY <2>2, <3>1
  <2> QED BY <2>1, <2>2, InitCalls DEF InOrder
<1>4. ubx_on \in BOOLEAN BY DEF Init, zed_f9p_init
<1>5. late \in 0 .. Len(calls)
  <2>1. Len(calls) \in Nat BY <1>1 DEF CallsOK
  <2> QED BY <2>1 DEF Init
<1>6. toHost \in Seq(Message) BY EmptySeq DEF Init
<1>7. /\ rtk_mode \in Mode /\ poll \in DOMAIN PollLut
      /\ cfg \subseteq Message /\ report \in Report
  BY NoReportType DEF Init, PollLut
<1> QED
  BY <1>1, <1>2, <1>3, <1>4, <1>5, <1>6, <1>7 DEF TypeInv, TypeOK, CallsOK

(* The types of all state, for any tables and depth of nesting; no call    *)
(* waits with nothing left to settle, and no time-out outlives its call.   *)
THEOREM TypesHold == Spec => []TypeOK
<1>1. TypeInv => TypeOK BY DEF TypeInv
<1> QED BY <1>1, InitType, NextType, PTL DEF Spec

-----------------------------------------------------------------------------
(* While a rover set-up is at work that never saw the mode NONE, nobody    *)
(* switches the parser on, and no acknowledge is parsed.                   *)
RoverUnheard ==
  \A i \in DOMAIN calls :
    calls[i].op = "rover" /\ ~calls[i].none => ~calls[i].res /\ ~ubx_on /\ ~ack

NoneSeen == rtk_mode = "NONE" => \A i \in DOMAIN calls : calls[i].none

RoverInv == RoverUnheard /\ NoneSeen /\ RoverConfirmedOnlyUnderNone

(* The last message of a rover is a setting, so that its failure counts.   *)
LEMMA RoverLastIsNotReset ==
  ASSUME NEW c \in Call, AtWork(c), c.op = "rover", Len(c.left) = 1
  PROVE  Head(c.left) # RESET
<1>1. Len(c.all) > 1 BY DEF AtWork, InOrder
<1>2. Len(c.all) \in Nat BY HeadOfCall
<1>3. Len(c.all) - Len(c.left) # 0
  <2> DEFINE n == Len(c.all)
  <2>1. n \in Nat /\ n > 1 BY <1>1, <1>2
  <2> HIDE DEF n
  <2>2. n - 1 # 0 BY <2>1
  <2> QED BY <2>2 DEF n
<1>4. Head(c.left) \in Key BY <1>3, HeadOfCall
<1> QED BY <1>4, NamesAssumption

(* A step that keeps what kind the calls are of and what they have seen.   *)
LEMMA RoverKept ==
  ASSUME RoverInv, report'.op # "rover", DOMAIN calls' = DOMAIN calls,
         \A i \in DOMAIN calls :
           /\ calls'[i].op = calls[i].op /\ (calls[i].none => calls'[i].none)
           /\ calls'[i].res => ack \/ calls[i].res,
         rtk_mode' = rtk_mode \/ rtk_mode' # "NONE" \/ \A i \in DOMAIN calls : calls'[i].none,
         ubx_on' => ubx_on \/ rtk_mode = "NONE",
         ack' => ack \/ ubx_on
  PROVE  RoverInv'
<1>1. RoverConfirmedOnlyUnderNone' BY DEF RoverConfirmedOnlyUnderNone
<1>2. NoneSeen' BY DEF RoverInv, NoneSeen
<1>3. ASSUME NEW i \in DOMAIN calls, calls'[i].op = "rover", ~calls'[i].none
      PROVE  ~calls'[i].res /\ ~ubx_on' /\ ~ack'
  <2>1. calls[i].op = "rover" /\ ~calls[i].none BY <1>3
  <2>2. ~calls[i].res /\ ~ubx_on /\ ~ack BY <2>1 DEF RoverInv, RoverUnheard
  <2>3. rtk_mode # "NONE" BY <2>1 DEF RoverInv, NoneSeen
  <2> QED BY <2>2, <2>3
<1> QED BY <1>1, <1>2, <1>3 DEF RoverInv, RoverUnheard

(* A message sent by the call at the top is no acknowledge.                *)
LEMMA RoverTopSends ==
  ASSUME CallsOK, RoverInv, NEW c, TopSends(c)
  PROVE  RoverInv'
<1>1. /\ calls # << >> /\ c \in Call /\ c.left # << >> /\ c.op = top.op /\ c.none = top.none
      /\ report' = NoReport /\ ubx_on' = ubx_on /\ rtk_mode' = rtk_mode /\ ack' = FALSE
  BY DEF TopSends, ubx_send_message
<1>2. Sends(c).op = top.op /\ Sends(c).none = top.none /\ Sends(c).res = FALSE
  BY <1>1, SendsFields
<1>3. /\ DOMAIN calls' = DOMAIN calls /\ calls'[Len(calls)] = Sends(c)
      /\ \A i \in DOMAIN calls : i # Len(calls) => calls'[i] = calls[i]
  BY TopSendsCalls
<1>4. \A i \in DOMAIN calls :
        /\ calls'[i].op = calls[i].op /\ (calls[i].none => calls'[i].none)
        /\ calls'[i].res => ack \/ calls[i].res
  BY <1>2, <1>3 DEF top
<1>5. report'.op # "rover" BY <1>1 DEF NoReport
<1> QED BY <1>1, <1>3, <1>4, <1>5, RoverKept

(* Every step leaves the rovers unheard.                                   *)
LEMMA NextRover == TypeInv /\ RoverInv /\ [Next]_vars => RoverInv'
<1> SUFFICES ASSUME TypeInv, RoverInv, [Next]_vars PROVE RoverInv'
  OBVIOUS
<1>1. CallsOK /\ AllAtWork BY DEF TypeInv, IInv
<1>2. NoReport.op # "rover" BY DEF NoReport
<1>3. CASE NextPass
  <2>1. /\ calls # << >> /\ calls' = [calls EXCEPT ![Len(calls)].res = ack]
        /\ report' = NoReport /\ ack' = ack /\ ubx_on' = ubx_on /\ rtk_mode' = rtk_mode
    BY <1>3, Zenon DEF NextPass, zed
  <2>2. /\ DOMAIN calls' = DOMAIN calls
        /\ \A i \in DOMAIN calls :
             /\ calls'[i].op = calls[i].op /\ calls'[i].none = calls[i].none
             /\ calls'[i].res => ack \/ calls[i].res
    BY <1>1, <2>1, TestedCalls
  <2> QED BY <1>2, <2>1, <2>2, RoverKept
<1>4. CASE TryAgain BY <1>1, <1>4, TryAgainSends, RoverTopSends
<1>5. CASE NextMessage BY <1>1, <1>5, NextMessageSends, RoverTopSends
<1>6. CASE SetupEnds
  <2>1. PICK ok \in BOOLEAN :
          /\ TryEnds(ok) /\ Len(top.left) = 1 /\ calls' = Outer
          /\ rtk_mode' = IF top.op = "base" THEN "BASE" ELSE rtk_mode
          /\ report' = [op |-> top.op, all |-> top.all, ok |-> OutRes(ok), sent |-> TRUE,
                        doubt |-> top.doubt, none |-> top.none]
          /\ UNCHANGED <<env, ubx_on, ack, poll, wire, cfg>>
    BY <1>6, Zenon DEF SetupEnds
  <2>2. calls # << >> BY <2>1 DEF TryEnds
  <2>3. RoverUnheard' /\ NoneSeen'
    BY <1>1, <2>1, <2>2, OuterCalls DEF RoverInv, RoverUnheard, NoneSeen
  <2>4. ASSUME top.op = "rover", ~top.none PROVE OutRes(ok) = FALSE
    <3>1. ~top.res
      BY <1>1, <2>2, <2>4, OuterCalls DEF RoverInv, RoverUnheard, top
    <3>2. top \in Call /\ AtWork(top) BY <1>1, <2>2, OuterCalls DEF AllAtWork
    <3>3. Head(top.left) # RESET BY <2>1, <2>4, <3>2, RoverLastIsNotReset
    <3> QED BY <2>1, <3>1, <3>3 DEF TryEnds, OutRes
  <2>5. report'.op = top.op /\ report'.ok = OutRes(ok) /\ report'.none = top.none BY <2>1
  <2>6. RoverConfirmedOnlyUnderNone' BY <2>4, <2>5 DEF RoverConfirmedOnlyUnderNone
  <2> QED BY <2>3, <2>6 DEF RoverInv
<1>7. CASE ubx_cfg_set_val \/ zed_f9p_deploy_base \/ zed_f9p_deploy_rover
  <2>1. PICK op \in Operation, messages \in Seq(Message), ok \in BOOLEAN :
          /\ InOrder(op, messages) /\ Begin(op, messages, ok)
          /\ ubx_on' = (IF op = "rover" THEN FALSE ELSE ubx_on)
          /\ rtk_mode' = (IF op = "base" THEN "BASE" ELSE rtk_mode)
    BY <1>7, Commands
  <2> DEFINE c == NewCall(op, messages, ok)
  <2>2. messages # << >> /\ report' = NoReport /\ ack' = FALSE
    BY <2>1 DEF Begin, ubx_send_message, InOrder
  <2>3. /\ c \in Call /\ c.left # << >>
        /\ DOMAIN calls' = 1 .. Len(calls) + 1 /\ DOMAIN calls = 1 .. Len(calls)
        /\ calls'[Len(calls) + 1] = Sends(c)
        /\ \A i \in DOMAIN calls : calls'[i] = Disturbed(Head(messages))[i]
    BY <1>1, <2>1, <2>2, BeginCalls
  <2>4. c.op = op /\ c.none = (rtk_mode = "NONE") BY DEF NewCall
  <2> HIDE DEF c
  <2>5. Sends(c).op = op /\ Sends(c).none = (rtk_mode = "NONE") /\ Sends(c).res = FALSE
    BY <2>3, <2>4, SendsFields, Zenon
  <2>6. \A i \in DOMAIN calls :
          calls'[i].op = calls[i].op /\ calls'[i].res = calls[i].res /\ calls'[i].none = calls[i].none
    BY <1>1, <2>3, DisturbedCalls
  <2>7. ASSUME NEW i \in DOMAIN calls' PROVE i \in DOMAIN calls \/ calls'[i] = Sends(c)
    <3>1. Len(calls) \in Nat BY <1>1 DEF CallsOK
    <3> DEFINE n == Len(calls)
    <3>2. i \in 1 .. n + 1 /\ DOMAIN calls = 1 .. n /\ n \in Nat BY <2>3, <2>7, <3>1
    <3> HIDE DEF n
    <3>3. i \in DOMAIN calls \/ i = n + 1 BY <3>2
    <3> QED BY <2>3, <3>3 DEF n
  <2>8. RoverUnheard'
    BY <2>1, <2>2, <2>5, <2>6, <2>7 DEF RoverInv, RoverUnheard
  <2>9. NoneSeen'
    BY <2>1, <2>5, <2>6, <2>7 DEF RoverInv, NoneSeen
  <2>10. RoverConfirmedOnlyUnderNone' BY <1>2, <2>2 DEF RoverConfirmedOnlyUnderNone
  <2> QED BY <2>8, <2>9, <2>10 DEF RoverInv
<1>8. CASE deploy_base_invalid
  <2>1. /\ calls' = [i \in DOMAIN calls |-> [calls[i] EXCEPT !.none = @ \/ rtk_mode' = "NONE"]]
        /\ ubx_on' = ubx_on /\ ack' = ack
    BY <1>8, Zenon DEF deploy_base_invalid
  <2>2. PICK ok \in BOOLEAN : report' = [NoReport EXCEPT !.op = "base", !.all = Setup("base"), !.ok = ok]
    BY <1>8, Zenon DEF deploy_base_invalid
  <2>3. report'.op # "rover" BY <2>2 DEF NoReport
  <2>4. /\ DOMAIN calls' = DOMAIN calls
        /\ \A i \in DOMAIN calls :
             /\ calls'[i].op = calls[i].op /\ calls'[i].res = calls[i].res
             /\ calls'[i].none <=> calls[i].none \/ rtk_mode' = "NONE"
    BY <1>1, <2>1, ModeSeenCalls
  <2> QED BY <2>1, <2>3, <2>4, RoverKept
<1>9. CASE proc_uart1
  <2>1. report' = NoReport /\ ubx_on' = ubx_on /\ rtk_mode' = rtk_mode
    BY <1>9, Zenon DEF proc_uart1, zed
  <2>2. CASE UNCHANGED <<ack, calls>> BY <1>2, <2>1, <2>2, RoverKept
  <2>3. CASE ubx_on /\ calls' = [i \in DOMAIN calls |-> [calls[i] EXCEPT !.heard = TRUE]]
    <3>1. /\ DOMAIN calls' = DOMAIN calls
          /\ \A i \in DOMAIN calls :
               calls'[i].op = calls[i].op /\ calls'[i].res = calls[i].res
               /\ calls'[i].none = calls[i].none
      BY <1>1, <2>3, HeardCalls
    <3> QED BY <1>2, <2>1, <2>3, <3>1, RoverKept
  <2> QED BY <1>9, <2>2, <2>3, Zenon DEF proc_uart1
<1>10. CASE ubx_proc
  <2>1. /\ report' = NoReport /\ ubx_on' = ubx_on /\ rtk_mode' = rtk_mode /\ ack' = FALSE
        /\ calls' = calls \/ calls' = Disturbed("POLL")
    BY <1>10, Zenon DEF ubx_proc, ubx_send_message, zed
  <2>2. /\ DOMAIN calls' = DOMAIN calls
        /\ \A i \in DOMAIN calls :
             calls'[i].op = calls[i].op /\ calls'[i].res = calls[i].res
             /\ calls'[i].none = calls[i].none
    BY <1>1, <2>1, DisturbedCalls
  <2> QED BY <1>2, <2>1, <2>2, RoverKept
<1>11. CASE zed_f9p_proc
  <2>1. /\ report' = NoReport /\ UNCHANGED <<rtk_mode, calls, ack>>
        /\ ubx_on' => ubx_on \/ rtk_mode = "NONE"
    BY <1>11 DEF zed_f9p_proc, TypeInv, TypeOK, Mode
  <2> QED BY <1>2, <2>1, RoverKept
<1>12. CASE Receives \/ Refuses \/ AnswerLost \/ TimeOut
  <2>1. UNCHANGED <<calls, ack, ubx_on, rtk_mode>> /\ report' = NoReport
    BY <1>12 DEF Receives, Refuses, AnswerLost, TimeOut, zed
  <2> QED BY <1>2, <2>1, RoverKept
<1>13. CASE UNCHANGED vars
  BY <1>13 DEF vars, zed, RoverInv, RoverUnheard, NoneSeen, RoverConfirmedOnlyUnderNone
<1> QED
  BY <1>3, <1>4, <1>5, <1>6, <1>7, <1>8, <1>9, <1>10, <1>11, <1>12, <1>13 DEF Next, Host

(* At the start a rover has its parser off.                                *)
LEMMA InitRover == Init => RoverInv
<1> SUFFICES ASSUME Init PROVE RoverInv OBVIOUS
<1>1. RoverConfirmedOnlyUnderNone BY DEF Init, NoReport, RoverConfirmedOnlyUnderNone
<1>2. ASSUME calls = << >> PROVE RoverUnheard /\ NoneSeen BY <1>2 DEF RoverUnheard, NoneSeen
<1>3. ASSUME NEW op, NEW messages, NEW ok, calls = <<NewCall(op, messages, ok)>>,
             op = "rover" => ubx_on = FALSE
      PROVE  RoverUnheard /\ NoneSeen
  <2> DEFINE c == NewCall(op, messages, ok)
  <2>1. c.op = op /\ c.res = FALSE /\ (c.none <=> rtk_mode = "NONE") BY DEF NewCall
  <2>2. calls = <<c>> BY <1>3
  <2> HIDE DEF c
  <2> QED BY <1>3, <2>1, <2>2 DEF RoverUnheard, NoneSeen, Init
<1> QED BY <1>1, <1>2, <1>3, InitCalls DEF RoverInv

(* A rover set-up during which the mode is never NONE is never confirmed   *)
(* (zed_f9p_deploy_rover, zed_f9p_proc): in the modes BASE and ROVER       *)
(* nobody switches the UBX parser on again, so that every message times    *)
(* out and the set-up reports failure, whatever the receiver does and      *)
(* however the modes change inside its waits.                              *)
THEOREM RoverNeverConfirmed == Spec => []RoverConfirmedOnlyUnderNone
<1>1. RoverInv => RoverConfirmedOnlyUnderNone BY DEF RoverInv
<1> QED BY <1>1, InitType, NextType, InitRover, NextRover, PTL DEF Spec

-----------------------------------------------------------------------------
(* What a success rests on.  SettledOf: the messages a call is done with.  *)
SettledOf(c) == {c.all[k] : k \in 1 .. Len(c.all) - Len(c.left)}

InForce(m) == m = RESET \/ m \in cfg

(* A call inside another left the other's message in doubt, and one that   *)
(* began with a reset all its messages.                                    *)
Nested ==
  \A j \in DOMAIN calls : \A i \in 1 .. j - 1 :
    /\ Head(calls[i].left) \in calls[i].doubt
    /\ Head(calls[j].all) = RESET => Messages(calls[i].all) \subseteq calls[i].doubt

(* A reset on its way can undo nothing that counts. *)
ResetAhead ==
  RESET \in Messages(toReceiver) =>
    \A i \in DOMAIN calls : SettledOf(calls[i]) \subseteq calls[i].doubt \cup {RESET}

SettledHold ==
  \A i \in DOMAIN calls : calls[i].out_res =>
    SettledOf(calls[i]) \subseteq calls[i].doubt \cup cfg \cup {RESET, Head(calls[i].left)}

(* Of a message not in doubt nothing but itself and its answer is under    *)
(* way, so that the flag can have been set by its answer only.             *)
UnderWay(m) ==
  /\ Messages(toReceiver) \cup Messages(toHost) \subseteq {m, "POLL_NAV"}
  /\ m \in Messages(toHost) \/ ack \/ top.res => InForce(m)

TopAlone ==
  calls # << >> /\ Head(top.left) \notin top.doubt => UnderWay(Head(top.left))

(* What was answered is in force until a reset is answered. *)
AnswersHold ==
  \A i \in DOMAIN toHost : toHost[i] \in Key =>
    toHost[i] \in cfg \/ \E j \in DOMAIN toHost : j > i /\ toHost[j] = RESET

ForceInv ==
  Nested /\ ResetAhead /\ SettledHold /\ TopAlone /\ AnswersHold /\ SuccessMeansInForce

(* A call that goes on is done with one more message.                      *)
LEMMA SettledTail ==
  ASSUME NEW c \in Call, AtWork(c), NEW d, d.all = c.all, Len(d.left) = Len(c.left) - 1
  PROVE  SettledOf(d) = SettledOf(c) \cup {Head(c.left)}
<1> DEFINE n == Len(c.all)  m == Len(c.left)
<1>1. n \in Nat /\ m \in Nat /\ m <= n /\ Head(c.left) = c.all[n - m + 1]
  BY HeadOfCall
<1>2. SettledOf(d) = {c.all[k] : k \in 1 .. n - (m - 1)} BY DEF SettledOf
<1>3. SettledOf(c) = {c.all[k] : k \in 1 .. n - m} BY DEF SettledOf
<1> HIDE DEF n, m
<1>4. 1 .. n - (m - 1) = 1 .. n - m \cup {n - m + 1} BY <1>1
<1> QED BY <1>1, <1>2, <1>3, <1>4

(* A call with one message left is done with all others.                   *)
LEMMA SettledAll ==
  ASSUME NEW c \in Call, AtWork(c), Len(c.left) = 1
  PROVE  Messages(c.all) = SettledOf(c) \cup {Head(c.left)}
<1> DEFINE n == Len(c.all)
<1>1. n \in Nat /\ 1 <= n /\ DOMAIN c.all = 1 .. n /\ Head(c.left) = c.all[n - 1 + 1]
  BY HeadOfCall
<1>2. SettledOf(c) = {c.all[k] : k \in 1 .. n - 1} BY DEF SettledOf
<1>3. Messages(c.all) = {c.all[k] : k \in 1 .. n} BY <1>1 DEF Messages
<1> HIDE DEF n
<1>4. 1 .. n = 1 .. n - 1 \cup {n - 1 + 1} BY <1>1
<1> QED BY <1>1, <1>2, <1>3, <1>4

(* A call that has not settled anything: a new one, or one at its reset. *)
LEMMA SettledNone ==
  ASSUME NEW c, Len(c.all) - Len(c.left) = 0 PROVE SettledOf(c) = {}
BY DEF SettledOf

(* What a call is done with, and what it waits for, are messages of it.    *)
LEMMA SettledWithin ==
  ASSUME NEW c \in Call, AtWork(c)
  PROVE  SettledOf(c) \subseteq Messages(c.all) /\ Head(c.left) \in Messages(c.all)
<1> DEFINE n == Len(c.all)  m == Len(c.left)
<1>1. /\ n \in Nat /\ m \in Nat /\ 0 < m /\ m <= n /\ DOMAIN c.all = 1 .. n
      /\ n - m + 1 \in DOMAIN c.all /\ Head(c.left) = c.all[n - m + 1]
  BY HeadOfCall
<1>2. SettledOf(c) = {c.all[k] : k \in 1 .. n - m} BY DEF SettledOf
<1> HIDE DEF n, m
<1>3. \A k \in 1 .. n - m : k \in DOMAIN c.all BY <1>1
<1> QED BY <1>1, <1>2, <1>3 DEF Messages

(* A message appended is one more.                                         *)
LEMMA MessagesAppend ==
  ASSUME NEW s \in Seq(Message), NEW m \in Message
  PROVE  Messages(Append(s, m)) = Messages(s) \cup {m}
<1>1. /\ DOMAIN Append(s, m) = 1 .. Len(s) + 1 /\ DOMAIN s = 1 .. Len(s) /\ Len(s) \in Nat
      /\ Append(s, m)[Len(s) + 1] = m /\ \A i \in 1 .. Len(s) : Append(s, m)[i] = s[i]
  BY AppendProperties, LenProperties
<1>2. Messages(Append(s, m)) \subseteq Messages(s) \cup {m}
  <2>1. ASSUME NEW i \in DOMAIN Append(s, m) PROVE Append(s, m)[i] \in Messages(s) \cup {m}
    <3> DEFINE n == Len(s)
    <3>1. i \in 1 .. n + 1 /\ n \in Nat BY <1>1, <2>1
    <3> HIDE DEF n
    <3>2. i \in 1 .. n \/ i = n + 1 BY <3>1
    <3> QED BY <1>1, <3>2 DEF Messages, n
  <2> QED BY <2>1 DEF Messages
<1>3. Len(s) + 1 \in DOMAIN Append(s, m) /\ \A i \in DOMAIN s : i \in DOMAIN Append(s, m)
  BY <1>1
<1>4. Messages(s) \cup {m} \subseteq Messages(Append(s, m))
  BY <1>1, <1>3 DEF Messages
<1> QED BY <1>2, <1>4

(* Without its first message a sequence has no others.                     *)
LEMMA MessagesTail ==
  ASSUME NEW s \in Seq(Message), s # << >>
  PROVE  /\ Messages(Tail(s)) \subseteq Messages(s) /\ Head(s) \in Messages(s)
         /\ Head(s) \in Message /\ Tail(s) \in Seq(Message)
         /\ \A i \in DOMAIN Tail(s) : i + 1 \in DOMAIN s /\ Tail(s)[i] = s[i + 1]
         /\ \A i \in DOMAIN s : i # 1 => i - 1 \in DOMAIN Tail(s)
<1> DEFINE n == Len(s)
<1>1. n \in Nat /\ n # 0 /\ DOMAIN s = 1 .. n BY EmptySeq, LenProperties
<1>2. /\ Tail(s) \in Seq(Message) /\ Len(Tail(s)) = n - 1 /\ Head(s) \in Message /\ Head(s) = s[1]
      /\ \A i \in 1 .. Len(Tail(s)) : Tail(s)[i] = s[i + 1]
  BY HeadTailProperties
<1>3. DOMAIN Tail(s) = 1 .. n - 1 BY <1>2, LenProperties
<1> HIDE DEF n
<1>4. \A i \in DOMAIN Tail(s) : i + 1 \in DOMAIN s BY <1>1, <1>3
<1>5. \A i \in DOMAIN s : i # 1 => i - 1 \in DOMAIN Tail(s) BY <1>1, <1>3
<1>6. 1 \in DOMAIN s BY <1>1
<1>7. \A i \in DOMAIN Tail(s) : Tail(s)[i] = s[i + 1] BY <1>2, <1>3 DEF n
<1> QED BY <1>2, <1>4, <1>5, <1>6, <1>7 DEF Messages

(* An answer taken or lost, and an answer sent. *)
LEMMA AnswersTail ==
  ASSUME AnswersHold, toHost \in Seq(Message), toHost # << >>, toHost' = Tail(toHost), cfg' = cfg
  PROVE  AnswersHold'
<1> SUFFICES ASSUME NEW i \in DOMAIN toHost', toHost'[i] \in Key, toHost'[i] \notin cfg'
             PROVE  \E j \in DOMAIN toHost' : j > i /\ toHost'[j] = RESET
  BY DEF AnswersHold
<1>1. i + 1 \in DOMAIN toHost /\ toHost'[i] = toHost[i + 1] BY MessagesTail
<1>2. PICK j \in DOMAIN toHost : j > i + 1 /\ toHost[j] = RESET
  BY <1>1 DEF AnswersHold
<1>3. i \in Nat /\ i >= 1 /\ j \in Nat /\ j # 1
  BY <1>2, LenProperties, MessagesTail
<1>4. j - 1 \in DOMAIN toHost' BY <1>3, MessagesTail
<1>5. toHost'[j - 1] = toHost[(j - 1) + 1] BY <1>4, MessagesTail
<1>6. (j - 1) + 1 = j /\ j - 1 > i BY <1>2, <1>3
<1> QED BY <1>2, <1>4, <1>5, <1>6

(* An answer sent: of a setting in force now, or of a reset.               *)
LEMMA AnswersAppend ==
  ASSUME AnswersHold, toHost \in Seq(Message), NEW m \in Message, toHost' = Append(toHost, m),
         m = RESET \/ cfg \subseteq cfg', m \in Key => m \in cfg'
  PROVE  AnswersHold'
<1> DEFINE n == Len(toHost)
<1>1. /\ DOMAIN toHost' = 1 .. n + 1 /\ DOMAIN toHost = 1 .. n /\ n \in Nat
      /\ toHost'[n + 1] = m /\ \A i \in 1 .. n : toHost'[i] = toHost[i]
  BY AppendProperties, LenProperties
<1> HIDE DEF n
<1> SUFFICES ASSUME NEW i \in DOMAIN toHost', toHost'[i] \in Key, toHost'[i] \notin cfg'
             PROVE  \E j \in DOMAIN toHost' : j > i /\ toHost'[j] = RESET
  BY DEF AnswersHold
<1>2. i # n + 1 BY <1>1
<1>3. i \in 1 .. n /\ n + 1 > i /\ n + 1 \in DOMAIN toHost' BY <1>1, <1>2
<1>4. CASE m = RESET BY <1>1, <1>3, <1>4
<1>5. CASE cfg \subseteq cfg'
  <2>1. toHost[i] \in Key /\ toHost[i] \notin cfg BY <1>1, <1>3, <1>5
  <2>2. PICK j \in DOMAIN toHost : j > i /\ toHost[j] = RESET BY <1>1, <1>3, <2>1 DEF AnswersHold
  <2>3. j \in DOMAIN toHost' /\ toHost'[j] = RESET BY <1>1, <2>2
  <2> QED BY <2>2, <2>3
<1> QED BY <1>4, <1>5

(* A step that leaves the work of the calls as it is. *)
LEMMA WorkKept ==
  ASSUME Nested, ResetAhead, SettledHold, DOMAIN calls' = DOMAIN calls,
         \A i \in DOMAIN calls :
           /\ calls'[i].all = calls[i].all /\ calls'[i].left = calls[i].left
           /\ calls'[i].out_res = calls[i].out_res /\ calls[i].doubt \subseteq calls'[i].doubt,
         \A j \in DOMAIN calls : \A i \in 1 .. j - 1 : i \in DOMAIN calls,
         RESET \in Messages(toReceiver') => RESET \in Messages(toReceiver),
         cfg \subseteq cfg' \/ RESET \in Messages(toReceiver)
  PROVE  Nested' /\ ResetAhead' /\ SettledHold'
<1>1. \A i \in DOMAIN calls : SettledOf(calls'[i]) = SettledOf(calls[i]) BY DEF SettledOf
<1>2. Nested'
  <2>1. ASSUME NEW j \in DOMAIN calls', NEW i \in 1 .. j - 1
        PROVE  /\ Head(calls'[i].left) \in calls'[i].doubt
               /\ Head(calls'[j].all) = RESET => Messages(calls'[i].all) \subseteq calls'[i].doubt
    <3>1. i \in DOMAIN calls /\ j \in DOMAIN calls OBVIOUS
    <3>2. /\ Head(calls[i].left) \in calls[i].doubt
          /\ Head(calls[j].all) = RESET => Messages(calls[i].all) \subseteq calls[i].doubt
      BY <3>1 DEF Nested
    <3>3. /\ calls'[i].all = calls[i].all /\ calls'[i].left = calls[i].left
          /\ calls'[j].all = calls[j].all /\ calls[i].doubt \subseteq calls'[i].doubt
      BY <3>1
    <3> QED BY <3>2, <3>3
  <2> QED BY <2>1 DEF Nested
<1>3. ResetAhead' BY <1>1 DEF ResetAhead
<1>4. SettledHold'
  <2>1. ASSUME NEW i \in DOMAIN calls, calls'[i].out_res
        PROVE  SettledOf(calls'[i])
                 \subseteq calls'[i].doubt \cup cfg' \cup {RESET, Head(calls'[i].left)}
    <3>1. CASE cfg \subseteq cfg' BY <1>1, <2>1, <3>1 DEF SettledHold
    <3>2. CASE RESET \in Messages(toReceiver) BY <1>1, <2>1, <3>2 DEF ResetAhead
    <3> QED BY <3>1, <3>2
  <2> QED BY <2>1 DEF SettledHold
<1> QED BY <1>2, <1>3, <1>4

(* A message sent that is not in doubt is alone. *)
LEMMA SentAlone ==
  ASSUME OthersOK, AnswersHold, NEW d \in Call, d.left # << >>,
         Head(d.left) \in Key \cup {RESET}, top' = Sends(d),
         ubx_send_message(Head(d.left)), UNCHANGED <<toHost, cfg>>
  PROVE  TopAlone'
<1> DEFINE h == Head(d.left)
<1>1. Sends(d).left = d.left /\ Sends(d).doubt = DoubtSent(d) /\ Sends(d).res = FALSE /\ h \in Message
  BY SendsFields
<1>2. ack' = FALSE /\ toReceiver' = Append(toReceiver, h) BY DEF ubx_send_message
<1>3. Messages(toReceiver') = Messages(toReceiver) \cup {h}
  BY <1>1, <1>2, MessagesAppend DEF OthersOK
<1>4. Head(top'.left) = h /\ top'.doubt = DoubtSent(d) /\ top'.res = FALSE BY <1>1
<1> SUFFICES ASSUME h \notin DoubtSent(d) PROVE UnderWay(h)'
  BY <1>4 DEF TopAlone
<1>5. ~OthersUnderWay(h) BY DEF DoubtSent
<1>6. Messages(toReceiver) \cup Messages(toHost) \subseteq {h, "POLL_NAV"}
  BY <1>5 DEF OthersUnderWay
<1>7. h \in Messages(toHost) => InForce(h)
  <2> SUFFICES ASSUME h \in Messages(toHost), h # RESET PROVE h \in cfg
    BY DEF InForce
  <2>1. PICK i \in DOMAIN toHost : toHost[i] = h BY DEF Messages
  <2>2. h \in Key OBVIOUS
  <2>3. ASSUME NEW j \in DOMAIN toHost, toHost[j] = RESET PROVE FALSE
    <3>1. RESET \in {h, "POLL_NAV"} BY <1>6, <2>3 DEF Messages
    <3> QED BY <3>1, NamesAssumption
  <2> QED BY <2>1, <2>2, <2>3 DEF AnswersHold
<1>8. (Messages(toReceiver) \cup Messages(toHost) \subseteq {h, "POLL_NAV"})'
  BY <1>3, <1>6
<1> QED BY <1>2, <1>4, <1>7, <1>8 DEF UnderWay, InForce

(* What the two ways on leave of the message before. *)
Acked(m, c) == m = RESET \/ m \in c.doubt \/ m \in cfg

(* The call at the top sends: what it is done with is in force or in       *)
(* doubt.                                                                  *)
LEMMA TopSendsForce ==
  ASSUME TypeInv, ForceInv, NEW c, TopSends(c),
         \/ c.left = top.left /\ c.out_res = top.out_res
         \/ /\ Len(top.left) > 1 /\ c.left = Tail(top.left)
            /\ c.out_res => top.out_res /\ Acked(Head(top.left), top)
  PROVE  ForceInv'
<1> DEFINE n == Len(calls)  h == Head(c.left)  d == Sends(c)
<1>1. CallsOK /\ AllAtWork /\ OthersOK BY DEF TypeInv, IInv, TypeOK, OthersOK
<1>2. /\ calls # << >> /\ c \in Call /\ c.left # << >> /\ c.all = top.all /\ c.doubt = top.doubt
      /\ ubx_send_message(h) /\ report' = NoReport /\ UNCHANGED <<toHost, cfg>>
  BY DEF TopSends
<1>3. /\ d \in Call /\ d.all = top.all /\ d.left = c.left /\ d.out_res = c.out_res
      /\ d.doubt = DoubtSent(c) /\ h \in Message
  BY <1>2, SendsFields
<1>4. /\ DOMAIN calls' = DOMAIN calls /\ calls'[n] = d /\ top' = d /\ Len(calls') = n
      /\ \A i \in DOMAIN calls : i # n => calls'[i] = calls[i]
  BY <1>1, TopSendsCalls
<1>5. /\ n \in DOMAIN calls /\ top = calls[n] /\ top \in Call /\ DOMAIN calls = 1 .. n /\ n \in Nat
      /\ AtWork(top)
  BY <1>1, <1>2, OuterCalls DEF AllAtWork, CallsOK
<1>6. AllAtWork' BY <1>1, <1>3, <1>4, TopSendsAtWork
<1>7. AtWork(d) BY <1>4, <1>5, <1>6 DEF AllAtWork
<1>8. h \in Key \/ (h = RESET /\ Len(d.all) - Len(d.left) = 0)
  BY <1>3, <1>7, HeadOfCall
<1>9. Messages(toReceiver') = Messages(toReceiver) \cup {h}
  BY <1>1, <1>2, <1>3, MessagesAppend DEF OthersOK, ubx_send_message
<1>10. \A x \in top.doubt : x \in d.doubt \/ x = h BY <1>2, <1>3 DEF DoubtSent
<1>11. RESET \in Messages(toReceiver) /\ h # RESET => top.doubt \cup {h} \subseteq d.doubt
  <2> SUFFICES ASSUME RESET \in Messages(toReceiver), h # RESET
               PROVE  top.doubt \cup {h} \subseteq d.doubt
    OBVIOUS
  <2>1. OthersUnderWay(h) BY NamesAssumption DEF OthersUnderWay
  <2> QED BY <1>2, <1>3, <2>1 DEF DoubtSent
<1>12. \/ SettledOf(d) = SettledOf(top) /\ c.left = top.left
       \/ SettledOf(d) = SettledOf(top) \cup {Head(top.left)} /\ c.left = Tail(top.left)
            /\ Len(top.left) > 1
  <2>1. CASE c.left = top.left BY <1>3, <2>1 DEF SettledOf
  <2>2. CASE Len(top.left) > 1 /\ c.left = Tail(top.left)
    <3>1. top.left \in Seq(Message) BY <1>5 DEF Call
    <3>2. Len(d.left) = Len(top.left) - 1 BY <1>3, <2>2, <3>1, TailOf
    <3> QED BY <1>3, <1>5, <2>2, <3>2, SettledTail
  <2> QED BY <2>1, <2>2
<1> HIDE DEF n, h, d
<1>13. Nested'
  <2>1. ASSUME NEW j \in DOMAIN calls', NEW i \in 1 .. j - 1
        PROVE  /\ Head(calls'[i].left) \in calls'[i].doubt
               /\ Head(calls'[j].all) = RESET => Messages(calls'[i].all) \subseteq calls'[i].doubt
    <3>1. i \in DOMAIN calls /\ j \in DOMAIN calls /\ i # n BY <1>4, <1>5, <2>1
    <3>2. calls'[i] = calls[i] /\ calls'[j].all = calls[j].all BY <1>3, <1>4, <1>5, <3>1
    <3> QED BY <3>1, <3>2 DEF ForceInv, Nested
  <2> QED BY <2>1 DEF Nested
<1>14. ResetAhead'
  <2> SUFFICES ASSUME RESET \in Messages(toReceiver'), NEW i \in DOMAIN calls
               PROVE  SettledOf(calls'[i]) \subseteq calls'[i].doubt \cup {RESET}
    BY <1>4 DEF ResetAhead
  <2>1. CASE h = RESET
    <3>1. SettledOf(d) = {} BY <1>8, <2>1, NamesAssumption, SettledNone
    <3>2. ASSUME i # n PROVE SettledOf(calls[i]) \subseteq calls[i].doubt
      <4>1. Head(calls[n].all) = RESET
        <5>1. Head(d.left) = d.all[Len(d.all) - Len(d.left) + 1] BY <1>3, <1>7, HeadOfCall
        <5>2. Len(d.all) - Len(d.left) = 0 BY <1>8, <2>1, NamesAssumption
        <5> DEFINE k == Len(d.all) - Len(d.left)
        <5>6. Head(d.left) = d.all[k + 1] /\ k = 0 BY <5>1, <5>2
        <5> HIDE DEF k
        <5>7. k + 1 = 1 BY <5>6
        <5>3. Head(d.left) = d.all[1] BY <5>6, <5>7, Zenon
        <5>4. d.all # << >> /\ d.all \in Seq(Message) BY <1>3, <1>7 DEF AtWork, InOrder, Call
        <5>5. Head(d.all) = d.all[1] BY <5>4
        <5> QED BY <1>3, <1>5, <2>1, <5>3, <5>5 DEF h
      <4>2. i \in 1 .. n - 1 BY <1>5, <3>2
      <4>3. Messages(calls[i].all) \subseteq calls[i].doubt BY <1>5, <4>1, <4>2 DEF ForceInv, Nested
      <4>4. calls[i] \in Call /\ AtWork(calls[i]) BY <1>1 DEF CallsOK, AllAtWork
      <4> QED BY <4>3, <4>4, SettledWithin
    <3> QED BY <1>4, <3>1, <3>2
  <2>2. CASE h # RESET
    <3>1. RESET \in Messages(toReceiver) BY <1>9, <2>2
    <3>2. \A k \in DOMAIN calls : SettledOf(calls[k]) \subseteq calls[k].doubt \cup {RESET}
      BY <3>1 DEF ForceInv, ResetAhead
    <3>3. Head(top.left) \in top.doubt \cup {RESET}
      <4>1. ASSUME Head(top.left) \notin top.doubt PROVE RESET = Head(top.left)
        <5>1. UnderWay(Head(top.left)) BY <1>2, <4>1 DEF ForceInv, TopAlone
        <5> QED BY <3>1, <5>1, NamesAssumption DEF UnderWay
      <4> QED BY <4>1
    <3>4. SettledOf(d) \subseteq top.doubt \cup {RESET} BY <1>5, <1>12, <3>2, <3>3
    <3>5. SettledOf(d) \subseteq d.doubt \cup {RESET} BY <1>11, <2>2, <3>1, <3>4
    <3> QED BY <1>4, <3>2, <3>5
  <2> QED BY <2>1, <2>2
<1>15. SettledHold'
  <2> SUFFICES ASSUME NEW i \in DOMAIN calls, calls'[i].out_res
               PROVE  SettledOf(calls'[i])
                        \subseteq calls'[i].doubt \cup cfg \cup {RESET, Head(calls'[i].left)}
    BY <1>2, <1>4 DEF SettledHold
  <2>1. CASE i # n BY <1>4, <2>1 DEF ForceInv, SettledHold
  <2>2. CASE i = n
    <3>1. c.out_res BY <1>3, <1>4, <2>2
    <3>2. top.out_res BY <3>1
    <3>3. SettledOf(top) \subseteq top.doubt \cup cfg \cup {RESET, Head(top.left)}
      BY <1>5, <3>2 DEF ForceInv, SettledHold
    <3>4. SettledOf(d) \subseteq top.doubt \cup cfg \cup {RESET, h}
      <4>1. CASE c.left = top.left
        <5>1. Head(top.left) = h BY <4>1 DEF h
        <5>2. SettledOf(d) = SettledOf(top)
          BY <1>3, <4>1 DEF SettledOf
        <5> QED BY <3>3, <5>1, <5>2
      <4>2. CASE c.left # top.left
        <5>1. Acked(Head(top.left), top) BY <3>1, <4>2
        <5>2. SettledOf(d) = SettledOf(top) \cup {Head(top.left)} BY <1>12, <4>2
        <5> QED BY <3>3, <5>1, <5>2 DEF Acked
      <4> QED BY <4>1, <4>2
    <3>5. Head(d.left) = h BY <1>3 DEF h
    <3> QED BY <1>4, <1>10, <2>2, <3>4, <3>5
  <2> QED BY <2>1, <2>2
<1>16. TopAlone'
  <2>1. h \in Key \cup {RESET} BY <1>8
  <2> QED BY <1>1, <1>2, <1>4, <2>1, SentAlone DEF ForceInv, d, h
<1>17. AnswersHold' BY <1>2 DEF ForceInv, AnswersHold
<1>18. SuccessMeansInForce' BY <1>2 DEF SuccessMeansInForce, NoReport
<1> QED BY <1>13, <1>14, <1>15, <1>16, <1>17, <1>18 DEF ForceInv

(* A set-up begins: it leaves the messages of the others in doubt.         *)
LEMMA BeginForce ==
  ASSUME TypeInv, ForceInv, NEW op \in Operation, NEW messages \in Seq(Message),
         NEW ok \in BOOLEAN, InOrder(op, messages), Begin(op, messages, ok)
  PROVE  ForceInv'
<1> DEFINE n == Len(calls) + 1  h == Head(messages)  c == NewCall(op, messages, ok)  d == Sends(c)
<1>1. CallsOK /\ AllAtWork /\ OthersOK BY DEF TypeInv, IInv, TypeOK, OthersOK
<1>2. /\ messages # << >> /\ report' = NoReport /\ UNCHANGED <<toHost, cfg>>
      /\ ubx_send_message(h)
  BY DEF InOrder, Begin
<1>3. /\ c \in Call /\ c.left # << >> /\ c.left = messages /\ h \in Message
      /\ DOMAIN calls' = 1 .. n /\ DOMAIN calls = 1 .. n - 1 /\ n \in Nat
      /\ calls'[n] = d /\ top' = d
      /\ \A i \in DOMAIN calls : i \in DOMAIN calls' /\ calls'[i] = Disturbed(h)[i]
  <2>1. /\ c \in Call /\ c.left # << >> /\ c.left = messages /\ h \in Message
        /\ DOMAIN calls' = 1 .. n /\ DOMAIN calls = 1 .. Len(calls)
        /\ calls'[n] = d /\ top' = d
        /\ \A i \in DOMAIN calls : i \in DOMAIN calls' /\ calls'[i] = Disturbed(h)[i]
    BY <1>1, <1>2, BeginCalls
  <2>2. Len(calls) \in Nat BY <1>1 DEF CallsOK
  <2>3. n - 1 = Len(calls) BY <2>2
  <2> QED BY <2>1, <2>2, <2>3
<1>4. c.all = messages BY DEF NewCall
<1>5. d \in Call /\ d.all = messages /\ d.left = messages /\ h = Head(d.left)
  <2> HIDE DEF c
  <2> QED BY <1>3, <1>4, SendsFields
<1>6. \A i \in DOMAIN calls :
        /\ calls'[i].all = calls[i].all /\ calls'[i].left = calls[i].left
        /\ calls'[i].out_res = calls[i].out_res
        /\ calls'[i].doubt = calls[i].doubt \cup Doubted(calls[i], h)
  BY <1>1, <1>3, DisturbedCalls
<1>7. \A i \in DOMAIN calls :
        /\ Head(calls[i].left) \in Doubted(calls[i], h)
        /\ h = RESET => Messages(calls[i].all) \subseteq Doubted(calls[i], h)
  <2> SUFFICES ASSUME NEW i \in DOMAIN calls
               PROVE  /\ Head(calls[i].left) \in Doubted(calls[i], h)
                      /\ h = RESET => Messages(calls[i].all) \subseteq Doubted(calls[i], h)
    OBVIOUS
  <2>1. calls[i] \in Call /\ AtWork(calls[i]) BY <1>1 DEF CallsOK, AllAtWork
  <2>2. Head(calls[i].left) \in Messages(calls[i].all) BY <2>1, SettledWithin
  <2> QED BY <2>2 DEF Doubted
<1>8. SettledOf(d) = {}
  <2>1. Len(d.all) - Len(d.left) = 0
    <3>1. Len(messages) \in Nat BY LenProperties
    <3> QED BY <1>5, <3>1
  <2> QED BY <2>1, SettledNone
<1>9. h \in Key \cup {RESET}
  <2>1. 1 \in DOMAIN messages /\ h = messages[1]
    <3>1. DOMAIN messages = 1 .. Len(messages) /\ Len(messages) \in Nat /\ Len(messages) # 0
      BY <1>2, LenProperties, EmptySeq
    <3>2. h = messages[1] BY <1>2
    <3> DEFINE k == Len(messages)
    <3>3. DOMAIN messages = 1 .. k /\ k \in Nat /\ k # 0 BY <3>1
    <3> HIDE DEF k
    <3>4. 1 \in DOMAIN messages BY <3>3
    <3> QED BY <3>2, <3>4
  <2> QED BY <2>1 DEF InOrder
<1>10. Messages(toReceiver') = Messages(toReceiver) \cup {h}
  BY <1>1, <1>2, <1>3, MessagesAppend DEF OthersOK, ubx_send_message
<1> HIDE DEF n, h, c, d
<1>11. \A i \in DOMAIN calls' : i \in DOMAIN calls \/ i = n BY <1>3
<1>12. \A i \in DOMAIN calls : SettledOf(calls'[i]) = SettledOf(calls[i]) BY <1>6 DEF SettledOf
<1>13. Nested'
  <2>1. ASSUME NEW j \in DOMAIN calls', NEW i \in 1 .. j - 1
        PROVE  /\ Head(calls'[i].left) \in calls'[i].doubt
               /\ Head(calls'[j].all) = RESET => Messages(calls'[i].all) \subseteq calls'[i].doubt
    <3>1. i \in DOMAIN calls BY <1>3, <2>1
    <3>2. Head(calls'[i].left) \in calls'[i].doubt BY <1>6, <1>7, <3>1
    <3>3. ASSUME Head(calls'[j].all) = RESET PROVE Messages(calls'[i].all) \subseteq calls'[i].doubt
      <4>1. CASE j \in DOMAIN calls
        <5>1. Head(calls[j].all) = RESET BY <1>6, <3>3, <4>1
        <5>2. Messages(calls[i].all) \subseteq calls[i].doubt BY <4>1, <5>1 DEF ForceInv, Nested
        <5> QED BY <1>6, <3>1, <5>2
      <4>2. CASE j = n
        <5>1. h = RESET BY <1>3, <1>5, <3>3, <4>2
        <5> QED BY <1>6, <1>7, <3>1, <5>1
      <4> QED BY <1>11, <4>1, <4>2
    <3> QED BY <3>2, <3>3
  <2> QED BY <2>1 DEF Nested
<1>14. ResetAhead'
  <2> SUFFICES ASSUME RESET \in Messages(toReceiver'), NEW i \in DOMAIN calls'
               PROVE  SettledOf(calls'[i]) \subseteq calls'[i].doubt \cup {RESET}
    BY DEF ResetAhead
  <2>1. CASE i = n BY <1>3, <1>8, <2>1
  <2>2. CASE i \in DOMAIN calls /\ h = RESET
    <3>1. calls[i] \in Call /\ AtWork(calls[i]) BY <1>1, <2>2 DEF CallsOK, AllAtWork
    <3>2. SettledOf(calls[i]) \subseteq Messages(calls[i].all) BY <3>1, SettledWithin
    <3>3. Messages(calls[i].all) \subseteq Doubted(calls[i], h) BY <1>7, <2>2
    <3> QED BY <1>6, <1>12, <2>2, <3>2, <3>3
  <2>3. CASE i \in DOMAIN calls /\ h # RESET
    <3>1. RESET \in Messages(toReceiver) BY <1>10, <2>3
    <3> QED BY <1>6, <1>12, <2>3, <3>1 DEF ForceInv, ResetAhead
  <2> QED BY <1>11, <2>1, <2>2, <2>3
<1>15. SettledHold'
  <2> SUFFICES ASSUME NEW i \in DOMAIN calls', calls'[i].out_res
               PROVE  SettledOf(calls'[i])
                        \subseteq calls'[i].doubt \cup cfg \cup {RESET, Head(calls'[i].left)}
    BY <1>2 DEF SettledHold
  <2>1. CASE i = n BY <1>3, <1>8, <2>1
  <2>2. CASE i \in DOMAIN calls BY <1>6, <1>12, <2>2 DEF ForceInv, SettledHold
  <2> QED BY <1>11, <2>1, <2>2
<1>16. TopAlone'
  <2> DEFINE e == c
  <2>1. e \in Call /\ e.left # << >> /\ Head(e.left) = h /\ top' = Sends(e)
    BY <1>3 DEF h, d
  <2> HIDE DEF e
  <2> QED BY <1>1, <1>2, <1>9, <2>1, SentAlone DEF ForceInv
<1>17. AnswersHold' BY <1>2 DEF ForceInv, AnswersHold
<1>18. SuccessMeansInForce' BY <1>2 DEF SuccessMeansInForce, NoReport
<1> QED BY <1>13, <1>14, <1>15, <1>16, <1>17, <1>18 DEF ForceInv

(* How a try ends: what it leaves of the message is in force, or in doubt. *)
LEMMA TryLeaves ==
  ASSUME TypeInv, ForceInv, NEW ok \in BOOLEAN, TryEnds(ok), OutRes(ok)
  PROVE  top.out_res /\ Acked(Head(top.left), top)
<1>1. calls # << >> BY DEF TryEnds
<1>2. top.out_res /\ (ok \/ Head(top.left) = RESET) BY DEF OutRes
<1>3. CASE ok
  <2>1. top.res BY <1>3 DEF TryEnds
  <2>2. Head(top.left) \notin top.doubt => UnderWay(Head(top.left))
    BY <1>1 DEF ForceInv, TopAlone
  <2> QED BY <1>2, <2>1, <2>2 DEF UnderWay, InForce, Acked
<1> QED BY <1>2, <1>3 DEF Acked

(* A step that leaves the calls, the flag and the wire as they are. *)
LEMMA ForceKept ==
  ASSUME CallsOK, ForceInv, report' = NoReport,
         Len(calls') = Len(calls), DOMAIN calls' = DOMAIN calls, calls' # << >> => calls # << >>,
         \A i \in DOMAIN calls :
           /\ calls'[i].all = calls[i].all /\ calls'[i].left = calls[i].left
           /\ calls'[i].out_res = calls[i].out_res /\ calls'[i].doubt = calls[i].doubt
           /\ calls'[i].res => ack \/ calls[i].res,
         Messages(toReceiver') \subseteq Messages(toReceiver),
         Messages(toHost') \subseteq Messages(toHost),
         ack' => ack \/ (toHost # << >> /\ Head(toHost) # "POLL_NAV"),
         toHost # << >> => Head(toHost) \in Messages(toHost),
         cfg' = cfg, AnswersHold'
  PROVE  ForceInv'
<1>1. SuccessMeansInForce' BY DEF SuccessMeansInForce, NoReport
<1>2. Nested' /\ ResetAhead' /\ SettledHold'
  <2>1. \A j \in DOMAIN calls : \A i \in 1 .. j - 1 : i \in DOMAIN calls BY DEF CallsOK
  <2> QED BY <2>1, WorkKept DEF ForceInv
<1>3. TopAlone'
  <2> SUFFICES ASSUME calls' # << >>, Head(top'.left) \notin top'.doubt
               PROVE  UnderWay(Head(top.left))'
    BY DEF TopAlone
  <2>1. calls # << >> OBVIOUS
  <2>2. Len(calls) \in DOMAIN calls /\ top = calls[Len(calls)] BY <2>1, OuterCalls
  <2>3. top' = calls'[Len(calls)] BY DEF top
  <2>4. /\ top'.left = top.left /\ top'.doubt = top.doubt /\ (top'.res => ack \/ top.res)
    BY <2>2, <2>3
  <2>5. UnderWay(Head(top.left)) BY <2>1, <2>4 DEF ForceInv, TopAlone
  <2>6. ack' => InForce(Head(top.left))
    <3>1. CASE ack BY <2>5, <3>1 DEF UnderWay
    <3>2. CASE toHost # << >> /\ Head(toHost) # "POLL_NAV"
      <4>1. Head(toHost) = Head(top.left) BY <2>5, <3>2 DEF UnderWay
      <4> QED BY <2>5, <3>2, <4>1 DEF UnderWay
    <3> QED BY <3>1, <3>2
  <2>7. (Messages(toReceiver) \cup Messages(toHost) \subseteq {Head(top.left), "POLL_NAV"})'
    BY <2>4, <2>5 DEF UnderWay
  <2>8. Head(top.left) \in Messages(toHost') \/ ack' \/ top'.res => InForce(Head(top.left))
    BY <2>4, <2>5, <2>6 DEF UnderWay
  <2> QED BY <2>4, <2>7, <2>8 DEF UnderWay, InForce
<1> QED BY <1>1, <1>2, <1>3 DEF ForceInv

(* Every step keeps what a success rests on.                               *)
LEMMA NextForce == TypeInv /\ ForceInv /\ [Next]_vars => ForceInv'
<1> SUFFICES ASSUME TypeInv, ForceInv, [Next]_vars PROVE ForceInv'
  OBVIOUS
<1>1. CallsOK /\ AllAtWork /\ OthersOK BY DEF TypeInv, IInv, TypeOK, OthersOK
<1>2. toHost # << >> => Head(toHost) \in Messages(toHost) BY <1>1, MessagesTail DEF OthersOK
<1>3. ASSUME UNCHANGED <<toHost, cfg>> PROVE AnswersHold'
  BY <1>3 DEF ForceInv, AnswersHold
<1>4. ASSUME report' = NoReport, UNCHANGED <<calls, ack, cfg>>, AnswersHold',
             Messages(toReceiver') \subseteq Messages(toReceiver),
             Messages(toHost') \subseteq Messages(toHost)
      PROVE  ForceInv'
  BY <1>1, <1>2, <1>4, ForceKept
<1>5. CASE NextPass
  <2>1. /\ calls # << >> /\ calls' = [calls EXCEPT ![Len(calls)].res = ack]
        /\ report' = NoReport /\ UNCHANGED <<ack, toReceiver, toHost, cfg>>
    BY <1>5, Zenon DEF NextPass, wire
  <2>2. /\ Len(calls') = Len(calls) /\ DOMAIN calls' = DOMAIN calls
        /\ \A i \in DOMAIN calls :
             /\ calls'[i].all = calls[i].all /\ calls'[i].left = calls[i].left
             /\ calls'[i].out_res = calls[i].out_res /\ calls'[i].doubt = calls[i].doubt
             /\ calls'[i].res => ack \/ calls[i].res
    BY <1>1, <2>1, TestedCalls
  <2> QED BY <1>1, <1>2, <1>3, <2>1, <2>2, ForceKept
<1>6. CASE TryAgain
  <2>1. PICK c : TopSends(c) /\ c.left = top.left /\ c.out_res = top.out_res
    BY <1>1, <1>6, TryAgainSends
  <2> QED BY <2>1, TopSendsForce
<1>7. CASE NextMessage
  <2>3. PICK ok \in BOOLEAN : \E c :
          /\ TryEnds(ok) /\ Len(top.left) > 1
          /\ TopSends(c) /\ c.left = Tail(top.left) /\ c.out_res = OutRes(ok)
    BY <1>1, <1>7, NextMessageSends, Zenon
  <2>1. PICK c :
          /\ TryEnds(ok) /\ Len(top.left) > 1
          /\ TopSends(c) /\ c.left = Tail(top.left) /\ c.out_res = OutRes(ok)
    BY <2>3
  <2>2. c.out_res => top.out_res /\ Acked(Head(top.left), top) BY <2>1, TryLeaves
  <2> QED BY <2>1, <2>2, TopSendsForce
<1>8. CASE SetupEnds
  <2>1. PICK ok \in BOOLEAN :
          /\ TryEnds(ok) /\ Len(top.left) = 1 /\ calls' = Outer
          /\ report' = [op |-> top.op, all |-> top.all, ok |-> OutRes(ok), sent |-> TRUE,
                        doubt |-> top.doubt, none |-> top.none]
          /\ UNCHANGED <<env, ubx_on, ack, poll, wire, cfg>>
    BY <1>8, Zenon DEF SetupEnds
  <2>2. calls # << >> BY <2>1 DEF TryEnds
  <2>3. /\ DOMAIN calls' \subseteq DOMAIN calls /\ Len(calls') = Len(calls) - 1
        /\ \A i \in DOMAIN calls' : calls'[i] = calls[i]
        /\ DOMAIN calls' = 1 .. Len(calls) - 1 /\ DOMAIN calls = 1 .. Len(calls) /\ Len(calls) \in Nat
        /\ Len(calls) \in DOMAIN calls /\ top = calls[Len(calls)] /\ top \in Call /\ AtWork(top)
    BY <1>1, <2>1, <2>2, OuterCalls DEF AllAtWork, CallsOK
  <2>4. UNCHANGED <<toReceiver, toHost, cfg>> BY <2>1 DEF wire
  <2>5. Nested'
    <3>1. ASSUME NEW j \in DOMAIN calls', NEW i \in 1 .. j - 1 PROVE i \in DOMAIN calls'
      <4> DEFINE n == Len(calls)
      <4>1. j \in 1 .. n - 1 /\ DOMAIN calls' = 1 .. n - 1 /\ n \in Nat BY <2>3, <3>1
      <4> HIDE DEF n
      <4> QED BY <3>1, <4>1
    <3> QED BY <2>3, <3>1 DEF ForceInv, Nested
  <2>6. ResetAhead' BY <2>3, <2>4 DEF ForceInv, ResetAhead
  <2>7. SettledHold' BY <2>3, <2>4 DEF ForceInv, SettledHold
  <2>8. TopAlone'
    <3> SUFFICES ASSUME calls' # << >> PROVE Head(top'.left) \in top'.doubt
      BY DEF TopAlone
    <3> DEFINE n == Len(calls)
    <3>1. n \in Nat /\ Len(calls') = n - 1 /\ DOMAIN calls' = 1 .. n - 1 /\ n \in DOMAIN calls
      BY <2>3
    <3>2. n - 1 # 0
      <4>1. calls' \in Seq(Call) BY <2>1, <2>2, <1>1, OuterCalls
      <4> QED BY <3>1, <4>1, EmptySeq
    <3>3. top' = calls'[n - 1] BY <3>1 DEF top
    <3> HIDE DEF n
    <3>4. n - 1 \in DOMAIN calls' /\ n - 1 \in 1 .. n - 1 BY <3>1, <3>2
    <3>5. Head(calls[n - 1].left) \in calls[n - 1].doubt BY <3>1, <3>4 DEF ForceInv, Nested
    <3> QED BY <2>3, <3>3, <3>4, <3>5
  <2>9. SuccessMeansInForce'
    <3>1. /\ report'.ok = OutRes(ok) /\ report'.all = top.all /\ report'.doubt = top.doubt
          /\ cfg' = cfg
      BY <2>1
    <3>2. ASSUME OutRes(ok) PROVE Messages(top.all) \subseteq {RESET} \cup top.doubt \cup cfg
      <4>1. top.out_res /\ Acked(Head(top.left), top) BY <2>1, <3>2, TryLeaves
      <4>2. SettledOf(top) \subseteq top.doubt \cup cfg \cup {RESET, Head(top.left)}
        BY <2>3, <4>1 DEF ForceInv, SettledHold
      <4>3. Messages(top.all) = SettledOf(top) \cup {Head(top.left)} BY <2>1, <2>3, SettledAll
      <4> QED BY <4>1, <4>2, <4>3 DEF Acked
    <3> QED BY <3>1, <3>2 DEF SuccessMeansInForce
  <2> QED BY <1>3, <2>4, <2>5, <2>6, <2>7, <2>8, <2>9 DEF ForceInv
<1>9. CASE ubx_cfg_set_val \/ zed_f9p_deploy_base \/ zed_f9p_deploy_rover
  BY <1>9, Commands, BeginForce
<1>10. CASE deploy_base_invalid
  <2>1. /\ calls' = [i \in DOMAIN calls |-> [calls[i] EXCEPT !.none = @ \/ rtk_mode' = "NONE"]]
        /\ UNCHANGED <<ack, toReceiver, toHost, cfg>>
    BY <1>10, Zenon DEF deploy_base_invalid, wire
  <2>2. PICK ok \in BOOLEAN : report' = [NoReport EXCEPT !.op = "base", !.all = Setup("base"), !.ok = ok]
    BY <1>10, Zenon DEF deploy_base_invalid
  <2>3. report'.sent = FALSE BY <2>2 DEF NoReport
  <2>4. /\ Len(calls') = Len(calls) /\ DOMAIN calls' = DOMAIN calls
        /\ \A i \in DOMAIN calls :
             /\ calls'[i].all = calls[i].all /\ calls'[i].left = calls[i].left
             /\ calls'[i].out_res = calls[i].out_res /\ calls'[i].doubt = calls[i].doubt
             /\ calls'[i].res = calls[i].res
    BY <1>1, <2>1, ModeSeenCalls
  <2>5. SuccessMeansInForce' BY <2>3 DEF SuccessMeansInForce
  <2>6. Nested' /\ ResetAhead' /\ SettledHold'
    <3>1. \A j \in DOMAIN calls : \A i \in 1 .. j - 1 : i \in DOMAIN calls BY <1>1 DEF CallsOK
    <3> QED BY <2>1, <2>4, <3>1, WorkKept DEF ForceInv
  <2>7. TopAlone'
    <3> SUFFICES ASSUME calls' # << >>, Head(top'.left) \notin top'.doubt
                 PROVE  UnderWay(Head(top.left))'
      BY DEF TopAlone
    <3>1. calls # << >> BY <2>1
    <3>2. Len(calls) \in DOMAIN calls /\ top = calls[Len(calls)] BY <1>1, <3>1, OuterCalls
    <3>3. top' = calls'[Len(calls)] BY <2>4 DEF top
    <3>4. top'.left = top.left /\ top'.doubt = top.doubt /\ top'.res = top.res
      BY <2>4, <3>2, <3>3
    <3>5. UnderWay(Head(top.left)) BY <3>1, <3>4 DEF ForceInv, TopAlone
    <3> QED BY <2>1, <3>4, <3>5 DEF UnderWay, InForce
  <2> QED BY <1>3, <2>1, <2>5, <2>6, <2>7 DEF ForceInv
<1>11. CASE proc_uart1
  <2>1. /\ toHost # << >> /\ toHost' = Tail(toHost) /\ report' = NoReport
        /\ UNCHANGED <<toReceiver, cfg>>
    BY <1>11, Zenon DEF proc_uart1
  <2>2. AnswersHold' BY <1>1, <2>1, AnswersTail DEF ForceInv, OthersOK
  <2>3. Messages(toHost') \subseteq Messages(toHost) BY <1>1, <2>1, MessagesTail DEF OthersOK
  <2>4. CASE UNCHANGED <<ack, calls>> BY <1>4, <2>1, <2>2, <2>3, <2>4
  <2>5. CASE /\ Head(toHost) # "POLL_NAV"
             /\ calls' = [i \in DOMAIN calls |-> [calls[i] EXCEPT !.heard = TRUE]]
    <3>1. /\ Len(calls') = Len(calls) /\ DOMAIN calls' = DOMAIN calls
          /\ \A i \in DOMAIN calls :
               /\ calls'[i].all = calls[i].all /\ calls'[i].left = calls[i].left
               /\ calls'[i].out_res = calls[i].out_res /\ calls'[i].doubt = calls[i].doubt
               /\ calls'[i].res = calls[i].res
      BY <1>1, <2>5, HeardCalls
    <3>2. calls' # << >> => calls # << >> BY <2>5
    <3> QED BY <1>1, <1>2, <2>1, <2>2, <2>3, <2>5, <3>1, <3>2, ForceKept
  <2> QED BY <1>11, <2>4, <2>5, Zenon DEF proc_uart1
<1>12. CASE ubx_proc
  <2>1. /\ ubx_send_message(PollLut[poll]) /\ report' = NoReport /\ UNCHANGED <<toHost, cfg>>
        /\ calls' = IF PollLut[poll] = "POLL" THEN Disturbed("POLL") ELSE calls
        /\ PollLut[poll] \in {"POLL", "POLL_NAV"}
    <3>1. PollLut[poll] \in {"POLL", "POLL_NAV"} BY <1>1 DEF OthersOK, PollLut
    <3> QED BY <1>12, <3>1, Zenon DEF ubx_proc
  <2>2. Messages(toReceiver') = Messages(toReceiver) \cup {PollLut[poll]} /\ ack' = FALSE
    BY <1>1, <2>1, MessagesAppend DEF OthersOK, ubx_send_message, Message
  <2>3. /\ Len(calls') = Len(calls) /\ DOMAIN calls' = DOMAIN calls
        /\ \A i \in DOMAIN calls :
             /\ calls'[i].all = calls[i].all /\ calls'[i].left = calls[i].left
             /\ calls'[i].out_res = calls[i].out_res /\ calls[i].doubt \subseteq calls'[i].doubt
             /\ calls'[i].res = calls[i].res
             /\ PollLut[poll] = "POLL" => Head(calls[i].left) \in calls'[i].doubt
    <3>1. CASE PollLut[poll] = "POLL"
      <4>1. "POLL" # RESET BY NamesAssumption
      <4>2. calls' = Disturbed("POLL") BY <2>1, <3>1
      <4>3. \A i \in DOMAIN calls : Head(calls[i].left) \in Doubted(calls[i], "POLL")
        BY <4>1 DEF Doubted
      <4> QED BY <1>1, <4>2, <4>3, DisturbedCalls
    <3>2. CASE PollLut[poll] # "POLL" BY <2>1, <3>2
    <3> QED BY <3>1, <3>2
  <2>4. Nested' /\ ResetAhead' /\ SettledHold'
    <3>1. \A j \in DOMAIN calls : \A i \in 1 .. j - 1 : i \in DOMAIN calls BY <1>1 DEF CallsOK
    <3>2. RESET \in Messages(toReceiver') => RESET \in Messages(toReceiver)
      BY <2>1, <2>2, NamesAssumption
    <3> QED BY <2>1, <2>3, <3>1, <3>2, WorkKept DEF ForceInv
  <2>5. TopAlone'
    <3> SUFFICES ASSUME calls' # << >>, Head(top'.left) \notin top'.doubt
                 PROVE  UnderWay(Head(top.left))'
      BY DEF TopAlone
    <3>1. calls # << >>
      <4>1. ASSUME calls = << >> PROVE FALSE
        <5>1. DOMAIN calls' = {} BY <2>3, <4>1
        <5>2. calls' = << >> BY <2>1, <4>1, <5>1 DEF Disturbed
        <5> QED BY <5>2
      <4> QED BY <4>1
    <3>2. Len(calls) \in DOMAIN calls /\ top = calls[Len(calls)] BY <1>1, <3>1, OuterCalls
    <3>3. top' = calls'[Len(calls)] BY <2>3 DEF top
    <3>4. /\ top'.left = top.left /\ top.doubt \subseteq top'.doubt /\ top'.res = top.res
          /\ PollLut[poll] = "POLL" => Head(top.left) \in top'.doubt
      BY <2>3, <3>2, <3>3
    <3>5. UnderWay(Head(top.left)) /\ PollLut[poll] = "POLL_NAV"
      BY <2>1, <3>1, <3>4 DEF ForceInv, TopAlone
    <3>6. (Messages(toReceiver) \cup Messages(toHost) \subseteq {Head(top.left), "POLL_NAV"})'
      BY <2>1, <2>2, <3>4, <3>5 DEF UnderWay
    <3>7. Head(top.left) \in Messages(toHost) \/ top.res => InForce(Head(top.left))
      BY <3>5 DEF UnderWay
    <3> QED BY <2>1, <2>2, <3>4, <3>6, <3>7 DEF UnderWay, InForce
  <2>6. SuccessMeansInForce' BY <2>1 DEF SuccessMeansInForce, NoReport
  <2> QED BY <1>3, <2>1, <2>4, <2>5, <2>6 DEF ForceInv
<1>13. CASE Receives
  <2> DEFINE m == Head(toReceiver)
  <2>1. /\ toReceiver # << >> /\ toReceiver' = Tail(toReceiver) /\ report' = NoReport
        /\ toHost' = Append(toHost, m) /\ UNCHANGED <<ack, calls>>
        /\ cfg' = CASE m = RESET                  -> {}
                    [] m \in {"POLL", "POLL_NAV"} -> cfg
                    [] OTHER                      -> cfg \cup {m}
    BY <1>13 DEF Receives
  <2>2. /\ m \in Message /\ m \in Messages(toReceiver)
        /\ Messages(toReceiver') \subseteq Messages(toReceiver)
    BY <1>1, <2>1, MessagesTail DEF OthersOK
  <2>3. Messages(toHost') = Messages(toHost) \cup {m} BY <1>1, <2>1, <2>2, MessagesAppend DEF OthersOK
  <2> HIDE DEF m
  <2>4. /\ m = RESET \/ cfg \subseteq cfg'
        /\ m \in Key => m \in cfg'
    BY <2>1, NamesAssumption
  <2>5. AnswersHold' BY <1>1, <2>1, <2>2, <2>4, AnswersAppend DEF ForceInv, OthersOK
  <2>6. Nested' /\ ResetAhead' /\ SettledHold'
    <3>1. \A j \in DOMAIN calls : \A i \in 1 .. j - 1 : i \in DOMAIN calls BY <1>1 DEF CallsOK
    <3>2. cfg \subseteq cfg' \/ RESET \in Messages(toReceiver) BY <2>2, <2>4
    <3> QED BY <2>1, <2>2, <3>1, <3>2, WorkKept DEF ForceInv
  <2>7. TopAlone'
    <3> SUFFICES ASSUME calls # << >>, Head(top.left) \notin top.doubt
                 PROVE  UnderWay(Head(top.left))'
      BY <2>1 DEF TopAlone, top
    <3>1. UnderWay(Head(top.left)) BY DEF ForceInv, TopAlone
    <3>2. top' = top BY <2>1 DEF top
    <3>3. m = Head(top.left) \/ m = "POLL_NAV" BY <2>2, <3>1 DEF UnderWay
    <3>4. (Messages(toReceiver) \cup Messages(toHost) \subseteq {Head(top.left), "POLL_NAV"})'
      BY <2>2, <2>3, <3>1, <3>2, <3>3 DEF UnderWay
    <3>5. top \in Call /\ AtWork(top) BY <1>1, OuterCalls DEF AllAtWork
    <3>6. Head(top.left) \in Key \cup {RESET} BY <3>5, HeadOfCall
    <3>7. m = Head(top.left) => (Head(top.left) = RESET \/ Head(top.left) \in cfg')
      BY <2>4, <3>6
    <3>8. m = "POLL_NAV" => cfg \subseteq cfg' BY <2>4, NamesAssumption
    <3>9. Head(top.left) \in Messages(toHost') \/ ack \/ top.res
            => (Head(top.left) = RESET \/ Head(top.left) \in cfg')
      BY <2>3, <3>1, <3>3, <3>7, <3>8 DEF UnderWay, InForce
    <3> QED BY <2>1, <3>2, <3>4, <3>9 DEF UnderWay, InForce
  <2>8. SuccessMeansInForce' BY <2>1 DEF SuccessMeansInForce, NoReport
  <2> QED BY <2>5, <2>6, <2>7, <2>8 DEF ForceInv
<1>14. CASE Refuses
  <2>1. /\ toReceiver # << >> /\ toReceiver' = Tail(toReceiver) /\ report' = NoReport
        /\ UNCHANGED <<calls, ack, toHost, cfg>>
    BY <1>14, Zenon DEF Refuses
  <2>2. Messages(toReceiver') \subseteq Messages(toReceiver)
    BY <1>1, <2>1, MessagesTail DEF OthersOK
  <2> QED BY <1>3, <1>4, <2>1, <2>2
<1>15. CASE AnswerLost
  <2>1. /\ toHost # << >> /\ toHost' = Tail(toHost) /\ report' = NoReport
        /\ UNCHANGED <<calls, ack, toReceiver, cfg>>
    BY <1>15, Zenon DEF AnswerLost
  <2>2. Messages(toHost') \subseteq Messages(toHost) BY <1>1, <2>1, MessagesTail DEF OthersOK
  <2>3. AnswersHold' BY <1>1, <2>1, AnswersTail DEF ForceInv, OthersOK
  <2> QED BY <1>4, <2>1, <2>2, <2>3
<1>16. CASE zed_f9p_proc \/ TimeOut
  <2>1. report' = NoReport /\ UNCHANGED <<calls, ack, toReceiver, toHost, cfg>>
    BY <1>16 DEF zed_f9p_proc, TimeOut, wire
  <2> QED BY <1>3, <1>4, <2>1
<1>17. CASE UNCHANGED vars
  <2>1. UNCHANGED <<report, calls, ack, toReceiver, toHost, cfg>> BY <1>17 DEF vars, wire
  <2>2. top' = top BY <2>1 DEF top
  <2>3. TopAlone' BY <2>1, <2>2 DEF ForceInv, TopAlone, UnderWay, InForce
  <2> QED
    BY <1>3, <2>1, <2>3 DEF ForceInv, Nested, ResetAhead, SettledHold, SuccessMeansInForce
<1> QED
  BY <1>5, <1>6, <1>7, <1>8, <1>9, <1>10, <1>11, <1>12, <1>13, <1>14, <1>15, <1>16, <1>17
  DEF Next, Host

(* It holds at the start, with nothing settled.                            *)
LEMMA InitForce == Init => ForceInv
<1> SUFFICES ASSUME Init PROVE ForceInv OBVIOUS
<1>1. /\ ack = FALSE /\ toHost = << >> /\ report = NoReport BY DEF Init
<1>2. SuccessMeansInForce BY <1>1 DEF SuccessMeansInForce, NoReport
<1>3. AnswersHold BY <1>1 DEF AnswersHold
<1>4. CASE calls = << >>
  <2>1. Nested /\ ResetAhead /\ SettledHold /\ TopAlone
    BY <1>4 DEF Nested, ResetAhead, SettledHold, TopAlone
  <2> QED BY <1>2, <1>3, <2>1 DEF ForceInv
<1>5. ASSUME NEW op, NEW messages \in Seq(Message), NEW ok,
             calls = <<NewCall(op, messages, ok)>>, toReceiver = <<Head(messages)>>
      PROVE  ForceInv
  <2> DEFINE c == NewCall(op, messages, ok)
  <2>1. c.all = messages /\ c.left = messages /\ c.res = FALSE BY DEF NewCall
  <2>2. calls = <<c>> BY <1>5
  <2> HIDE DEF c
  <2>3. DOMAIN calls = {1} /\ calls[1] = c /\ top = c BY <2>2 DEF top
  <2>4. SettledOf(c) = {}
    <3>1. Len(messages) \in Nat BY LenProperties
    <3>2. Len(c.all) - Len(c.left) = 0 BY <2>1, <3>1
    <3> QED BY <3>2, SettledNone
  <2>5. Nested BY <2>3 DEF Nested
  <2>6. ResetAhead /\ SettledHold BY <2>3, <2>4 DEF ResetAhead, SettledHold
  <2>7. Messages(toReceiver) = {Head(messages)} /\ Messages(toHost) = {}
    BY <1>1, <1>5 DEF Messages
  <2>8. TopAlone BY <1>1, <2>1, <2>3, <2>7 DEF TopAlone, UnderWay
  <2> QED BY <1>2, <1>3, <2>5, <2>6, <2>8 DEF ForceInv
<1> QED BY <1>4, <1>5, InitCalls

(* Of a set-up that reports success every setting is in force that no      *)
(* other acknowledge can have been taken for (ubx_send_message_ack,        *)
(* ubx_wait_ack): such a setting was last sent with nothing else under     *)
(* way, nothing that is acknowledged was sent inside its wait, and a reset *)
(* on its way since then would have left it in doubt.                      *)
THEOREM SuccessIsInForce == Spec => []SuccessMeansInForce
<1>1. ForceInv => SuccessMeansInForce BY DEF ForceInv
<1> QED BY <1>1, InitType, NextType, InitForce, NextForce, PTL DEF Spec
=============================================================================
