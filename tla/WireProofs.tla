----------------------------- MODULE WireProofs -----------------------------
(***************************************************************************)
(* Nothing in the stream says where a command ends, so the two programs    *)
(* have to agree on it: on what may follow what in the stream, and on      *)
(* whose turn it is.                                                       *)
(***************************************************************************)
EXTENDS Wire, SequenceTheorems, TLAPS

Parts == {"len", "text", "size", "data"}
Items == [part : Parts, no : Nat, kind : Kinds]

Reading == {"authlen", "authtext", "len", "text", "size", "data"}
Ended   == {"closing", "closed", "killed", "astray"}

Typed ==
  /\ cpc \in {"ready", "sendsize", "senddata", "awaiting", "gone"}
  /\ n \in Nat /\ kind \in Kinds
  /\ spc \in Reading \cup {"execute", "invalid"} \cup Ended
  /\ cmd.no \in Nat
  /\ c2s \in Seq(Items) /\ s2c \in Seq(Nat)
  /\ cpc = "sendsize" => kind \in {"UPLOAD", "EMPTY", "CUT"}
  /\ cpc = "senddata" => kind = "UPLOAD"

(* Nothing has made the two disagree. *)
Calm == causes \cap {"short", "unsent", "memory"} = {}

(* What follows an item in the stream. *)
NextAfter(x) ==
  CASE x.part = "len"  -> "text"
    [] x.part = "text" -> IF x.kind \in Uploads THEN "size" ELSE "len"
    [] x.part = "size" -> IF x.kind = "EMPTY" THEN "len" ELSE "data"
    [] x.part = "data" -> "len"

(* What the client sends next, and what the client thread reads next. *)
Sends == CASE cpc = "sendsize" -> "size"
           [] cpc = "senddata" -> "data"
           [] OTHER            -> "len"

Wants == CASE spc \in {"authtext", "text"} -> "text"
           [] spc = "size" -> "size"
           [] spc = "data" -> "data"
           [] OTHER        -> "len"

InOrder(q) == \A i \in 1 .. Len(q) - 1 : q[i + 1].part = NextAfter(q[i])

(* The client thread, the stream and the client agree. *)
Agreed ==
  /\ spc # "astray"
  /\ InOrder(c2s)
  /\ c2s # <<>> /\ spc \notin Ended => c2s[1].part = Wants
  /\ c2s # <<>> /\ cpc # "gone" => NextAfter(c2s[Len(c2s)]) = Sends
  /\ c2s = <<>> /\ cpc # "gone" /\ spc \notin Ended => Wants = Sends

FInv == Typed /\ (Calm => Agreed)

Tidy == causes \subseteq {"silent"}

(* One command is under way at a time: it is on its way to the client      *)
(* thread or with it, or its response is on its way back.                  *)
OneAtATime ==
  /\ s2c = <<>> \/ (s2c = <<n>> /\ cpc # "ready")
  /\ spc \notin Ended =>
       /\ \A i \in 1 .. Len(c2s) : c2s[i].no = n
       /\ \A i \in 2 .. Len(c2s) : c2s[i].part # "len"
       /\ spc \notin {"authlen", "len"} => cmd.no = n
       /\ spc \in {"execute", "invalid"} => c2s = <<>>
       /\ s2c # <<>> => c2s = <<>> /\ spc = "len"
       /\ cpc = "ready" => c2s = <<>> /\ spc \in {"authlen", "len"}

OInv == FInv /\ (Tidy => OneAtATime)

-----------------------------------------------------------------------------
(* Streams are sequences.                                                  *)

LEMMA OneMore ==
  ASSUME NEW S, NEW q \in Seq(S), NEW x \in S
  PROVE  /\ Append(q, x) \in Seq(S)
         /\ Len(q) \in Nat /\ Len(Append(q, x)) = Len(q) + 1
         /\ \A i \in 1 .. Len(q) : Append(q, x)[i] = q[i]
         /\ Append(q, x)[Len(q) + 1] = x
OBVIOUS

LEMMA TwoMore ==
  ASSUME NEW S, NEW q \in Seq(S), NEW x \in S, NEW y \in S
  PROVE  /\ q \o <<x, y>> \in Seq(S)
         /\ Len(q) \in Nat /\ Len(q \o <<x, y>>) = Len(q) + 2
         /\ \A i \in 1 .. Len(q) : (q \o <<x, y>>)[i] = q[i]
         /\ (q \o <<x, y>>)[Len(q) + 1] = x
         /\ (q \o <<x, y>>)[Len(q) + 2] = y
OBVIOUS

LEMMA OneLess ==
  ASSUME NEW S, NEW q \in Seq(S), q # <<>>
  PROVE  /\ Tail(q) \in Seq(S) /\ Head(q) \in S /\ Head(q) = q[1]
         /\ Len(q) \in Nat \ {0} /\ Len(Tail(q)) = Len(q) - 1
         /\ \A i \in 1 .. Len(q) - 1 : Tail(q)[i] = q[i + 1]
         /\ Tail(q) = <<>> <=> Len(q) = 1
<1>1. /\ Tail(q) \in Seq(S) /\ Head(q) \in S
      /\ Len(Tail(q)) = Len(q) - 1
      /\ \A i \in 1 .. Len(Tail(q)) : Tail(q)[i] = q[i + 1]
  BY HeadTailProperties
<1>2. Len(q) \in Nat \ {0}
  BY EmptySeq
<1>3. Head(q) = q[1]
  OBVIOUS
<1>4. Tail(q) = <<>> <=> Len(Tail(q)) = 0
  BY <1>1, EmptySeq
<1> QED
  BY <1>1, <1>2, <1>3, <1>4

LEMMA Response ==
  ASSUME NEW S, NEW q \in Seq(S), NEW x \in S
  PROVE  /\ q \o Responses(x) \in Seq(S)
         /\ q = <<>> => q \o Responses(x) = <<x>>
<1>1. <<x>> \in Seq(S)
  OBVIOUS
<1> QED
  BY <1>1, ConcatProperties, ConcatEmptySeq DEF Responses

LEMMA ItemFacts ==
  ASSUME NEW x \in Items
  PROVE  /\ x.part \in Parts /\ x.no \in Nat /\ x.kind \in Kinds
         /\ NextAfter(x) \in Parts
BY DEF Items, Parts, NextAfter

-----------------------------------------------------------------------------
(* The types.                                                              *)

LEMMA TypeCommandTyped ==
  ASSUME Typed, NEW k \in Kinds, TypeCommand(k)
  PROVE  Typed'
<1>1. /\ [part |-> "len",  no |-> n + 1, kind |-> k] \in Items
      /\ [part |-> "text", no |-> n + 1, kind |-> k] \in Items
  BY DEF Typed, Items, Parts
<1>2. c2s' \in Seq(Items)
  BY <1>1, TwoMore DEF Typed, TypeCommand
<1>3. /\ cpc' \in {"ready", "sendsize", "awaiting"}
      /\ cpc' = "sendsize" => k \in {"UPLOAD", "EMPTY", "CUT"}
  BY DEF TypeCommand, Kinds, Uploads
<1> QED
  BY <1>2, <1>3 DEF Typed, TypeCommand, server

LEMMA ClientTyped ==
  ASSUME Typed, SendSize \/ SendData \/ Receive \/ GiveUp \/ Quit
  PROVE  Typed'
<1>1. CASE SendSize
  <2>1. Item("size") \in Items
    BY DEF Typed, Items, Parts, Item
  <2>2. c2s' \in Seq(Items)
    BY <1>1, <2>1, OneMore DEF Typed, SendSize
  <2>3. cpc' = "ready" \/ (cpc' = "senddata" /\ kind = "UPLOAD")
    BY <1>1 DEF SendSize, Typed
  <2> QED
    BY <1>1, <2>2, <2>3 DEF Typed, SendSize, server
<1>2. CASE SendData
  <2>1. Item("data") \in Items
    BY DEF Typed, Items, Parts, Item
  <2>2. c2s' \in Seq(Items)
    BY <1>2, <2>1, OneMore DEF Typed, SendData
  <2> QED
    BY <1>2, <2>2 DEF Typed, SendData, server
<1>3. CASE Receive
  <2>1. s2c' \in Seq(Nat)
    BY <1>3, OneLess DEF Typed, Receive
  <2> QED
    BY <1>3, <2>1 DEF Typed, Receive, OneResponse, server
<1>4. CASE GiveUp \/ Quit
  BY <1>4 DEF Typed, GiveUp, Quit, server
<1> QED
  BY <1>1, <1>2, <1>3, <1>4

LEMMA ServerTyped ==
  ASSUME Typed, ServerStep
  PROVE  Typed'
<1> USE DEF Goto, Reading, Ended
<1>1. UNCHANGED client
  BY DEF ServerStep, GoAstray, ShortRead, ReadLen, Authenticate, ReadText,
         ReadSize, ReadData, Reject, Execute, EndOfStream, Stray, Close
<1>2. spc' \in Reading \cup {"execute", "invalid"} \cup Ended \cup {"killed"}
  BY DEF ServerStep, GoAstray, ShortRead, ReadLen, Authenticate, ReadText,
         ReadSize, ReadData, Reject, Execute, EndOfStream, Stray, Close,
         Respond, After, UploadNext
<1>3. /\ c2s' = c2s \/ (c2s # <<>> /\ c2s' = Tail(c2s))
      /\ cmd' = cmd \/ (c2s # <<>> /\ cmd' = Head(c2s))
  BY DEF ServerStep, GoAstray, ShortRead, ReadLen, Authenticate, ReadText,
         ReadSize, ReadData, Reject, Execute, EndOfStream, Stray, Close, Take,
         Expect
<1>4. c2s' \in Seq(Items) /\ cmd'.no \in Nat
  <2>1. c2s # <<>> => /\ Tail(c2s) \in Seq(Items)
                      /\ Head(c2s).no \in Nat
    BY OneLess, ItemFacts DEF Typed
  <2> QED
    BY <1>3, <2>1 DEF Typed
<1>5. s2c' \in Seq(Nat)
  <2>1. \/ s2c' \in {s2c, <<>>}
        \/ s2c' = s2c \o Responses(cmd.no)
        \/ c2s # <<>> /\ s2c' = s2c \o Responses(Head(c2s).no)
    BY DEF ServerStep, GoAstray, ShortRead, ReadLen, Authenticate, ReadText,
           ReadSize, ReadData, Reject, Execute, EndOfStream, Stray, Close,
           Respond, Expect
  <2>2. /\ cmd.no \in Nat /\ s2c \in Seq(Nat) /\ <<>> \in Seq(Nat)
        /\ c2s # <<>> => Head(c2s).no \in Nat
    <3>1. c2s # <<>> => Head(c2s) \in Items
      BY OneLess DEF Typed
    <3> QED
      BY <3>1, ItemFacts DEF Typed
  <2> QED
    BY <2>1, <2>2, Response
<1> QED
  BY <1>1, <1>2, <1>4, <1>5 DEF Typed, client

-----------------------------------------------------------------------------
(* A stream in order stays so when what follows is written, and when its   *)
(* first item is read.                                                     *)

LEMMA OrderWritten ==
  ASSUME NEW q \in Seq(Items), NEW x \in Items, InOrder(q),
         q # <<>> => NextAfter(q[Len(q)]) = x.part
  PROVE  /\ Append(q, x) \in Seq(Items) /\ Append(q, x) # <<>>
         /\ InOrder(Append(q, x))
         /\ Append(q, x)[Len(Append(q, x))] = x
         /\ Append(q, x)[1] = IF q = <<>> THEN x ELSE q[1]
<1> DEFINE r == Append(q, x)
<1>1. /\ r \in Seq(Items)
      /\ Len(q) \in Nat /\ Len(r) = Len(q) + 1
      /\ \A i \in 1 .. Len(q) : r[i] = q[i]
      /\ r[Len(q) + 1] = x
  BY OneMore
<1>2. q = <<>> <=> Len(q) = 0
  BY EmptySeq
<1> HIDE DEF r
<1>3. r # <<>>
  BY <1>1, EmptySeq
<1>4. ASSUME NEW i \in 1 .. Len(r) - 1
      PROVE  r[i + 1].part = NextAfter(r[i])
  <2>1. r[i] = q[i]
    BY <1>1
  <2>2. CASE i < Len(q)
    <3>1. i \in 1 .. Len(q) - 1 /\ r[i + 1] = q[i + 1]
      BY <1>1, <2>2
    <3> QED
      BY <2>1, <3>1 DEF InOrder
  <2>3. CASE i = Len(q)
    BY <1>1, <1>2, <2>1, <2>3
  <2> QED
    BY <1>1, <2>2, <2>3
<1>5. r[1] = IF q = <<>> THEN x ELSE q[1]
  <2>1. CASE q = <<>>
    BY <1>1, <1>2, <2>1
  <2>2. CASE q # <<>>
    BY <1>1, <1>2, <2>2
  <2> QED
    BY <2>1, <2>2
<1> QED
  BY <1>1, <1>3, <1>4, <1>5 DEF r, InOrder

LEMMA OrderRead ==
  ASSUME NEW q \in Seq(Items), q # <<>>, InOrder(q)
  PROVE  /\ InOrder(Tail(q))
         /\ Tail(q) # <<>> => /\ Tail(q)[1].part = NextAfter(Head(q))
                              /\ Tail(q)[Len(Tail(q))] = q[Len(q)]
         /\ Tail(q) = <<>> => Head(q) = q[Len(q)]
<1> DEFINE r == Tail(q)
<1>1. /\ Head(q) = q[1]
      /\ Len(q) \in Nat \ {0} /\ Len(r) = Len(q) - 1
      /\ \A i \in 1 .. Len(q) - 1 : r[i] = q[i + 1]
      /\ r = <<>> <=> Len(q) = 1
  BY OneLess
<1> HIDE DEF r
<1>2. ASSUME NEW i \in 1 .. Len(r) - 1
      PROVE  r[i + 1].part = NextAfter(r[i])
  <2>1. /\ i + 1 \in 1 .. Len(q) - 1
        /\ r[i] = q[i + 1] /\ r[i + 1] = q[(i + 1) + 1]
    BY <1>1
  <2> QED
    BY <2>1 DEF InOrder
<1>3. ASSUME r # <<>>
      PROVE  r[1].part = NextAfter(Head(q)) /\ r[Len(r)] = q[Len(q)]
  <2>1. Len(q) > 1
    BY <1>1, <1>3
  <2>2. r[1] = q[1 + 1] /\ 1 \in 1 .. Len(q) - 1
    BY <1>1, <2>1
  <2>3. r[Len(r)] = q[Len(q)]
    BY <1>1, <2>1
  <2> QED
    BY <1>1, <2>2, <2>3 DEF InOrder
<1>4. r = <<>> => Head(q) = q[Len(q)]
  BY <1>1
<1> QED
  BY <1>2, <1>3, <1>4 DEF r, InOrder

-----------------------------------------------------------------------------
(* The agreement, step by step.                                            *)

LEMMA CalmBefore ==
  ASSUME Typed, Next, Calm'
  PROVE  Calm
<1>1. SendSize => causes \subseteq causes'
  BY DEF Typed, SendSize, Upset
<1>2. causes \subseteq causes'
  BY <1>1 DEF Next, ClientStep, ServerStep, TypeCommand, SendData,
         Receive, GiveUp, Quit, GoAstray, ShortRead, ReadLen, Authenticate,
         ReadText, ReadSize, ReadData, Reject, Execute, EndOfStream, Stray,
         Close, Upset
<1> QED
  BY <1>2 DEF Calm

(* What the client writes is what it was to send. *)
LEMMA Sent ==
  ASSUME Typed, Agreed, NEW x \in Items, x.part = Sends,
         c2s' = Append(c2s, x), spc' = spc, cpc # "gone",
         cpc' # "gone" => NextAfter(x) = Sends'
  PROVE  Agreed'
<1>1. c2s \in Seq(Items) /\ InOrder(c2s)
  BY DEF Typed, Agreed
<1>2. c2s # <<>> => NextAfter(c2s[Len(c2s)]) = x.part
  BY DEF Agreed
<1>3. /\ c2s' # <<>> /\ InOrder(c2s') /\ c2s'[Len(c2s')] = x
      /\ c2s'[1] = IF c2s = <<>> THEN x ELSE c2s[1]
  BY <1>1, <1>2, OrderWritten
<1>4. Wants' = Wants
  BY DEF Wants
<1>5. ASSUME spc \notin Ended
      PROVE  c2s'[1].part = Wants
  <2>1. CASE c2s = <<>>
    <3>1. c2s'[1] = x
      BY <1>3, <2>1
    <3> QED
      BY <1>5, <2>1, <3>1 DEF Agreed
  <2>2. CASE c2s # <<>>
    <3>1. c2s'[1] = c2s[1]
      BY <1>3, <2>2
    <3> QED
      BY <1>5, <2>2, <3>1 DEF Agreed
  <2> QED
    BY <2>1, <2>2
<1>6. spc' # "astray"
  BY DEF Agreed
<1>7. cpc' # "gone" => NextAfter(c2s'[Len(c2s')]) = Sends'
  BY <1>3
<1> QED
  BY <1>3, <1>4, <1>5, <1>6, <1>7 DEF Agreed, Ended

(* The client thread reads what it wants and goes on to what follows. *)
LEMMA Taken ==
  ASSUME Typed, Agreed, c2s # <<>>, c2s' = Tail(c2s), cpc' = cpc,
         spc \notin Ended, spc' # "astray",
         spc' \notin Ended => Wants' = NextAfter(Head(c2s))
  PROVE  Agreed'
<1>1. c2s \in Seq(Items) /\ InOrder(c2s)
  BY DEF Typed, Agreed
<1>2. /\ InOrder(c2s')
      /\ c2s' # <<>> => /\ c2s'[1].part = NextAfter(Head(c2s))
                        /\ c2s'[Len(c2s')] = c2s[Len(c2s)]
      /\ c2s' = <<>> => Head(c2s) = c2s[Len(c2s)]
  BY <1>1, OrderRead
<1>3. Sends' = Sends
  BY DEF Sends
<1>4. cpc # "gone" => NextAfter(c2s[Len(c2s)]) = Sends
  BY DEF Agreed
<1> QED
  BY <1>2, <1>3, <1>4 DEF Agreed, Ended

LEMMA TypeCommandAgreed ==
  ASSUME Typed, Agreed, NEW k \in Kinds, TypeCommand(k), Calm'
  PROVE  Agreed'
<1> DEFINE x == [part |-> "len",  no |-> n + 1, kind |-> k]
           y == [part |-> "text", no |-> n + 1, kind |-> k]
<1>1. /\ x \in Items /\ x.part = "len"  /\ NextAfter(x) = "text"
      /\ y \in Items /\ y.part = "text"
      /\ NextAfter(y) = IF k \in Uploads THEN "size" ELSE "len"
  BY DEF Typed, Items, Parts, NextAfter
<1>2. /\ c2s \in Seq(Items) /\ InOrder(c2s)
      /\ c2s # <<>> => NextAfter(c2s[Len(c2s)]) = "len"
      /\ c2s = <<>> /\ spc \notin Ended => Wants = "len"
      /\ c2s # <<>> /\ spc \notin Ended => c2s[1].part = Wants
  BY DEF Typed, Agreed, TypeCommand, Sends
<1>3. c2s' = Append(Append(c2s, x), y)
  <2>1. c2s' = c2s \o <<x, y>>
    BY DEF TypeCommand
  <2> QED
    BY <1>1, <1>2, <2>1
<1>4. k # "NOFILE"
  BY DEF TypeCommand, Upset, Calm
<1>5. Sends' = IF k \in Uploads THEN "size" ELSE "len"
  BY <1>4 DEF TypeCommand, Sends, Kinds, Uploads
<1>6. Wants' = Wants /\ spc' = spc
  BY DEF TypeCommand, Wants, server
<1> DEFINE q == Append(c2s, x)
<1> HIDE DEF x, y
<1>7. /\ q \in Seq(Items) /\ q # <<>> /\ InOrder(q)
      /\ q[Len(q)] = x
      /\ q[1] = IF c2s = <<>> THEN x ELSE c2s[1]
  BY <1>1, <1>2, OrderWritten
<1> HIDE DEF q
<1>8. /\ c2s' # <<>> /\ InOrder(c2s')
      /\ c2s'[Len(c2s')] = y /\ c2s'[1] = q[1]
  <2>1. c2s' = Append(q, y)
    BY <1>3 DEF q
  <2>2. q # <<>> => NextAfter(q[Len(q)]) = y.part
    BY <1>1, <1>7
  <2> QED
    BY <1>1, <1>7, <2>1, <2>2, OrderWritten
<1>9. spc \notin Ended => q[1].part = Wants
  <2>1. CASE c2s = <<>>
    <3>1. q[1] = x
      BY <1>7, <2>1
    <3> QED
      BY <1>1, <1>2, <2>1, <3>1
  <2>2. CASE c2s # <<>>
    <3>1. q[1] = c2s[1]
      BY <1>7, <2>2
    <3> QED
      BY <1>2, <2>2, <3>1
  <2> QED
    BY <2>1, <2>2
<1>10. NextAfter(c2s'[Len(c2s')]) = Sends'
  BY <1>1, <1>5, <1>8
<1>11. spc' # "astray"
  BY <1>6 DEF Agreed
<1> QED
  BY <1>6, <1>8, <1>9, <1>10, <1>11 DEF Agreed, Ended

LEMMA ClientAgreed ==
  ASSUME Typed, Agreed, Calm',
         SendSize \/ SendData \/ Receive \/ GiveUp \/ Quit
  PROVE  Agreed'
<1>1. CASE SendSize
  <2> DEFINE x == Item("size")
  <2>1. /\ x \in Items /\ x.part = "size"
        /\ NextAfter(x) = IF kind = "EMPTY" THEN "len" ELSE "data"
    BY DEF Typed, Items, Parts, NextAfter, Item
  <2>2. /\ c2s' = Append(c2s, x) /\ spc' = spc
        /\ cpc = "sendsize" /\ Sends = "size"
    BY <1>1 DEF SendSize, Sends, server
  <2>3. Sends' = IF kind = "EMPTY" THEN "len" ELSE "data"
    <3>1. kind \in {"UPLOAD", "EMPTY", "CUT"}
      BY <2>2 DEF Typed
    <3>2. CASE kind = "UPLOAD"
      BY <1>1, <3>2 DEF SendSize, Sends
    <3>3. CASE kind = "EMPTY"
      BY <1>1, <3>3 DEF SendSize, Sends
    <3>4. CASE kind = "CUT"
      BY <1>1, <3>4 DEF SendSize, Upset, Calm
    <3> QED
      BY <3>1, <3>2, <3>3, <3>4
  <2> HIDE DEF x
  <2> QED
    BY <2>1, <2>2, <2>3, Sent
<1>2. CASE SendData
  <2> DEFINE x == Item("data")
  <2>1. x \in Items /\ x.part = "data" /\ NextAfter(x) = "len"
    BY DEF Typed, Items, Parts, NextAfter, Item
  <2>2. /\ c2s' = Append(c2s, x) /\ spc' = spc
        /\ cpc = "senddata" /\ Sends = "data" /\ Sends' = "len"
    BY <1>2 DEF SendData, Sends, server
  <2> HIDE DEF x
  <2> QED
    BY <2>1, <2>2, Sent
<1>3. CASE Receive \/ GiveUp \/ Quit
  <2>1. /\ c2s' = c2s /\ spc' = spc /\ Wants' = Wants
        /\ cpc' # "gone" => cpc # "gone" /\ Sends' = Sends
    BY <1>3 DEF Receive, GiveUp, Quit, OneResponse, Sends, Wants, server
  <2> QED
    BY <2>1 DEF Agreed, Ended
<1> QED
  BY <1>1, <1>2, <1>3

(* What the client thread reads is what comes: it never finds another      *)
(* thing at the head of the stream.                                        *)
LEMMA PlaceIsWants ==
  ASSUME spc \in DOMAIN Places
  PROVE  spc \notin Ended /\ Places[spc] = Wants
BY DEF Places, Wants, Ended

LEMMA ServerAgreed ==
  ASSUME Typed, Agreed, Calm', ServerStep
  PROVE  Agreed'
<1> USE DEF Goto
<1>0. c2s # <<>> => Head(c2s) \in Items /\ Head(c2s) = c2s[1]
  BY OneLess DEF Typed
<1>1. CASE GoAstray
  <2>1. c2s # <<>> /\ spc \notin Ended /\ Head(c2s).part # Wants
    BY <1>1, PlaceIsWants DEF GoAstray
  <2> QED
    BY <1>0, <2>1 DEF Agreed
<1>2. CASE ShortRead
  BY <1>2 DEF ShortRead, Upset, Calm
<1>3. CASE ReadLen
  <2>1. /\ c2s # <<>> /\ c2s' = Tail(c2s) /\ cpc' = cpc
        /\ spc \notin Ended /\ spc' \notin Ended
    BY <1>3 DEF ReadLen, Expect, Take, client, Ended
  <2>2. Wants' = "text" /\ NextAfter(Head(c2s)) = "text"
    BY <1>3 DEF ReadLen, Expect, Wants, NextAfter
  <2> QED
    BY <2>1, <2>2, Taken DEF Ended
<1>4. CASE Authenticate
  <2>1. /\ c2s # <<>> /\ c2s' = Tail(c2s) /\ cpc' = cpc
        /\ spc \notin Ended /\ spc' # "astray"
        /\ spc' \notin Ended => spc' = "len" /\ Head(c2s).kind = "AUTH"
    BY <1>4 DEF Authenticate, Expect, Take, Respond, client, Ended
  <2>2. ASSUME spc' \notin Ended
        PROVE  Wants' = "len" /\ NextAfter(Head(c2s)) = "len"
    BY <1>4, <2>1, <2>2 DEF Authenticate, Expect, Wants, NextAfter, Uploads
  <2> QED
    BY <2>1, <2>2, Taken
<1>5. CASE ReadText
  <2>1. /\ c2s # <<>> /\ c2s' = Tail(c2s) /\ cpc' = cpc
        /\ spc \notin Ended
        /\ spc' = IF Head(c2s).kind \in Uploads THEN "size" ELSE spc'
        /\ Head(c2s).kind \notin Uploads => spc' \in {"execute", "invalid"}
    BY <1>5 DEF ReadText, Expect, Take, After, UploadNext, client, Ended
  <2>2. Wants' = NextAfter(Head(c2s))
    BY <1>5, <2>1 DEF ReadText, Expect, Wants, NextAfter
  <2>3. spc' # "astray"
    BY <2>1
  <2> QED
    BY <2>1, <2>2, <2>3, Taken
<1>6. CASE ReadSize
  <2>1. /\ c2s # <<>> /\ c2s' = Tail(c2s) /\ cpc' = cpc
        /\ spc \notin Ended
        /\ spc' = IF Head(c2s).kind = "EMPTY" THEN "invalid" ELSE "data"
    BY <1>6 DEF ReadSize, Expect, Take, client, Ended, Upset, Calm
  <2>2. Wants' = NextAfter(Head(c2s))
    BY <1>6, <2>1 DEF ReadSize, Expect, Wants, NextAfter
  <2>3. spc' # "astray"
    BY <2>1
  <2> QED
    BY <2>1, <2>2, <2>3, Taken
<1>7. CASE ReadData
  <2>1. /\ c2s # <<>> /\ c2s' = Tail(c2s) /\ cpc' = cpc
        /\ spc \notin Ended /\ spc' = "execute"
    BY <1>7 DEF ReadData, Expect, Take, client, Ended
  <2>2. Wants' = "len" /\ NextAfter(Head(c2s)) = "len"
    BY <1>7, <2>1 DEF ReadData, Expect, Wants, NextAfter
  <2> QED
    BY <2>1, <2>2, Taken
<1>8. CASE Reject \/ Execute
  <2>1. /\ c2s' = c2s /\ cpc' = cpc /\ Sends' = Sends
        /\ spc \notin Ended /\ Wants = "len"
        /\ spc' \in {"len", "killed"}
    BY <1>8 DEF Reject, Execute, Respond, client, Ended, Wants, Sends
  <2>2. Wants' = "len"
    BY <2>1 DEF Wants
  <2> QED
    BY <2>1, <2>2 DEF Agreed, Ended
<1>9. CASE EndOfStream
  <2>1. /\ c2s = <<>> /\ c2s' = <<>> /\ cpc' = "gone"
        /\ spc' \in {"closing", "invalid"}
    BY <1>9 DEF EndOfStream, StreamEnds, client
  <2> QED
    BY <2>1 DEF Agreed, InOrder
<1>10. CASE Stray
  BY <1>10 DEF Stray, Agreed
<1>11. CASE Close
  <2>1. /\ c2s' = c2s /\ cpc' = cpc /\ Sends' = Sends
        /\ spc' = "closed"
    BY <1>11 DEF Close, client, Sends
  <2> QED
    BY <2>1 DEF Agreed, Ended
<1> QED
  BY <1>1, <1>2, <1>3, <1>4, <1>5, <1>6, <1>7, <1>8, <1>9, <1>10, <1>11
  DEF ServerStep

LEMMA FInvStep ==
  ASSUME FInv, [Next]_vars
  PROVE  FInv'
<1>1. CASE UNCHANGED vars
  BY <1>1 DEF FInv, Typed, Calm, Agreed, InOrder, Sends, Wants, vars,
              client, server
<1>2. CASE Next
  <2>1. Typed'
    BY <1>2, TypeCommandTyped, ClientTyped, ServerTyped
    DEF FInv, Next, ClientStep
  <2>2. ASSUME Calm'
        PROVE  Agreed'
    <3>1. Typed /\ Agreed
      BY <1>2, <2>2, CalmBefore DEF FInv
    <3> QED
      BY <1>2, <2>2, <3>1, TypeCommandAgreed, ClientAgreed, ServerAgreed
      DEF Next, ClientStep
  <2> QED
    BY <2>1, <2>2 DEF FInv
<1> QED
  BY <1>1, <1>2

LEMMA FInvInit ==
  ASSUME Init
  PROVE  FInv
BY DEF Init, FInv, Typed, Calm, Agreed, InOrder, Sends, Wants, NoItem, Kinds,
       Uploads, Reading, Ended

LEMMA Steps == Spec => Init /\ [][Next]_vars
BY PTL DEF Spec

LEMMA FInvHolds == Spec => []FInv
<1>1. Init => FInv
  BY FInvInit
<1>2. FInv /\ [Next]_vars => FInv'
  BY FInvStep
<1> QED
  BY <1>1, <1>2, Steps, PTL

(* The client thread takes bytes for others only when a recv returned a    *)
(* part of what was asked for, when the client announced an upload and did *)
(* not send it, or when there was no memory for one (main.c:349-359,       *)
(* 428-465; test_client.c).                                                *)
THEOREM Framing == Spec => []FramingKept
<1>1. FInv => FramingKept
  BY DEF FInv, Calm, Agreed, FramingKept
<1> QED
  BY <1>1, FInvHolds, PTL

-----------------------------------------------------------------------------
(* One command at a time, step by step.                                    *)

LEMMA TidyBefore ==
  ASSUME Typed, Next, Tidy'
  PROVE  Tidy /\ Calm' /\ Calm
<1>1. SendSize => causes \subseteq causes'
  BY DEF Typed, SendSize, Upset
<1>2. causes \subseteq causes'
  BY <1>1 DEF Next, ClientStep, ServerStep, TypeCommand, SendData,
         Receive, GiveUp, Quit, GoAstray, ShortRead, ReadLen, Authenticate,
         ReadText, ReadSize, ReadData, Reject, Execute, EndOfStream, Stray,
         Close, Upset
<1> QED
  BY <1>2 DEF Tidy, Calm

LEMMA TidyCauses ==
  Tidy' => /\ "short" \notin causes' /\ "unsent" \notin causes'
           /\ "memory" \notin causes' /\ "empty" \notin causes'
BY DEF Tidy

(* Of a stream that holds what is left of one command, what remains after  *)
(* its head: nothing when the next thing would be another command.         *)
LEMMA Remains ==
  ASSUME Typed, Agreed, OneAtATime, c2s # <<>>, spc \notin Ended
  PROVE  /\ Head(c2s).no = n /\ s2c = <<>> /\ cpc # "ready"
         /\ \A i \in 1 .. Len(Tail(c2s)) : /\ Tail(c2s)[i].no = n
                                           /\ Tail(c2s)[i].part # "len"
         /\ NextAfter(Head(c2s)) = "len" => Tail(c2s) = <<>>
<1>1. c2s \in Seq(Items) /\ InOrder(c2s)
  BY DEF Typed, Agreed
<1> DEFINE r == Tail(c2s)
<1>2. /\ Head(c2s) = c2s[1] /\ r \in Seq(Items)
      /\ Len(c2s) \in Nat \ {0} /\ Len(r) = Len(c2s) - 1
      /\ \A i \in 1 .. Len(c2s) - 1 : r[i] = c2s[i + 1]
      /\ r = <<>> <=> Len(c2s) = 1
  BY <1>1, OneLess
<1>3. r # <<>> => r[1].part = NextAfter(Head(c2s))
  BY <1>1, OrderRead
<1> HIDE DEF r
<1>4. /\ \A i \in 1 .. Len(c2s) : c2s[i].no = n
      /\ \A i \in 2 .. Len(c2s) : c2s[i].part # "len"
      /\ s2c = <<>> /\ cpc # "ready"
  BY DEF OneAtATime
<1>5. Head(c2s).no = n
  BY <1>2, <1>4
<1>6. ASSUME NEW i \in 1 .. Len(r)
      PROVE  r[i].no = n /\ r[i].part # "len"
  <2>1. /\ i + 1 \in 1 .. Len(c2s) /\ i + 1 \in 2 .. Len(c2s)
        /\ r[i] = c2s[i + 1]
    BY <1>2
  <2> QED
    BY <1>4, <2>1
<1>7. ASSUME r # <<>>
      PROVE  NextAfter(Head(c2s)) # "len"
  <2>1. 1 \in 1 .. Len(r)
    BY <1>2, <1>7
  <2> QED
    BY <1>3, <1>6, <1>7, <2>1
<1> QED
  BY <1>4, <1>5, <1>6, <1>7 DEF r

(* Reading leaves one command under way. *)
LEMMA OneTaken ==
  ASSUME Typed, Agreed, OneAtATime, spc \notin Ended,
         c2s # <<>>, Take, UNCHANGED client,
         s2c' = <<>> \/ s2c' = <<n>>,
         \/ spc' \in Ended
         \/ /\ spc' \in {"authtext", "text", "size", "data"} /\ s2c' = <<>>
         \/ /\ spc' \in {"execute", "invalid"} /\ s2c' = <<>>
            /\ NextAfter(Head(c2s)) = "len"
         \/ spc' = "len" /\ NextAfter(Head(c2s)) = "len"
  PROVE  OneAtATime'
<1>1. /\ Head(c2s).no = n /\ cpc # "ready"
      /\ \A i \in 1 .. Len(Tail(c2s)) : /\ Tail(c2s)[i].no = n
                                        /\ Tail(c2s)[i].part # "len"
      /\ NextAfter(Head(c2s)) = "len" => Tail(c2s) = <<>>
  BY Remains
<1>2. c2s' = Tail(c2s) /\ cmd' = Head(c2s) /\ n' = n /\ cpc' = cpc
  BY DEF Take, client
<1>3. c2s \in Seq(Items) /\ Len(c2s') \in Nat
  BY <1>2, OneLess, EmptySeq DEF Typed
<1>4. /\ \A i \in 1 .. Len(c2s') : c2s'[i].no = n'
      /\ \A i \in 2 .. Len(c2s') : c2s'[i].part # "len"
  <2>1. \A i \in 2 .. Len(c2s') : i \in 1 .. Len(c2s')
    BY <1>3
  <2> QED
    BY <1>1, <1>2, <2>1
<1>5. spc' \in {"execute", "invalid", "len"} => c2s' = <<>> \/ spc' \in Ended
  BY <1>1, <1>2 DEF Ended
<1> QED
  BY <1>1, <1>2, <1>4, <1>5 DEF OneAtATime, Ended

(* Answering, or not, ends the command. *)
LEMMA OneAnswered ==
  ASSUME Typed, OneAtATime, spc \in {"execute", "invalid"},
         UNCHANGED <<client, cmd, c2s>>,
         \/ spc' = "len" /\ s2c' \in {s2c, s2c \o Responses(cmd.no)}
         \/ spc' = "killed" /\ s2c' = s2c
  PROVE  OneAtATime'
<1>1. c2s = <<>> /\ cmd.no = n /\ s2c = <<>> /\ cpc # "ready"
  BY DEF OneAtATime, Ended
<1>2. s2c' \in {<<>>, <<n>>}
  <2>1. s2c \in Seq(Nat) /\ cmd.no \in Nat
    BY DEF Typed
  <2> QED
    BY <1>1, <2>1, Response
<1>3. Len(c2s') = 0
  BY <1>1
<1> QED
  BY <1>1, <1>2, <1>3 DEF OneAtATime, client, Ended

LEMMA TypeCommandOne ==
  ASSUME Typed, OneAtATime, NEW k \in Kinds, TypeCommand(k), Tidy'
  PROVE  OneAtATime'
<1> DEFINE x == [part |-> "len",  no |-> n + 1, kind |-> k]
           y == [part |-> "text", no |-> n + 1, kind |-> k]
<1>1. k # "NOFILE" /\ cpc' # "ready"
  <2>1. k # "NOFILE"
    BY TidyCauses DEF TypeCommand, Upset
  <2> QED
    BY <2>1 DEF TypeCommand
<1>2. /\ s2c = <<>> /\ s2c' = <<>> /\ spc' = spc /\ cmd' = cmd /\ n' = n + 1
      /\ spc \notin Ended => c2s = <<>> /\ spc \in {"authlen", "len"}
  BY DEF TypeCommand, OneAtATime, server
<1>3. ASSUME spc \notin Ended
      PROVE  /\ \A i \in 1 .. Len(c2s') : c2s'[i].no = n'
             /\ \A i \in 2 .. Len(c2s') : c2s'[i].part # "len"
  <2>1. c2s' = <<x, y>>
    <3>1. c2s' = <<>> \o <<x, y>>
      BY <1>2, <1>3 DEF TypeCommand
    <3> QED
      BY <3>1
  <2>2. x.no = n' /\ y.no = n' /\ y.part = "text"
    BY <1>2
  <2> HIDE DEF x, y
  <2>3. /\ Len(c2s') = 2 /\ c2s'[1] = x /\ c2s'[2] = y
        /\ \A i \in 1 .. 2 : i = 1 \/ i = 2
        /\ \A i \in 2 .. 2 : i = 2
    BY <2>1
  <2> QED
    BY <2>2, <2>3
<1> QED
  BY <1>1, <1>2, <1>3 DEF OneAtATime, Ended

(* The size and the content of an upload belong to the command before. *)
LEMMA OneSent ==
  ASSUME Typed, Agreed, OneAtATime, NEW p \in {"size", "data"}, Sends = p,
         cpc # "gone", cpc' # "ready", c2s' = Append(c2s, Item(p)),
         UNCHANGED <<n, kind, server, s2c>>
  PROVE  OneAtATime'
<1> DEFINE x == Item(p)
<1>1. x \in Items /\ x.no = n /\ x.part = p
  BY DEF Typed, Items, Parts, Item
<1>2. c2s' = Append(c2s, x) /\ c2s \in Seq(Items)
  BY DEF Typed
<1> HIDE DEF x
<1>3. /\ Len(c2s) \in Nat /\ Len(c2s') = Len(c2s) + 1
      /\ \A i \in 1 .. Len(c2s) : c2s'[i] = c2s[i]
      /\ c2s'[Len(c2s) + 1] = x
  BY <1>1, <1>2, OneMore
<1>4. ASSUME spc \notin Ended
      PROVE  /\ \A i \in 1 .. Len(c2s') : c2s'[i].no = n
             /\ \A i \in 2 .. Len(c2s') : c2s'[i].part # "len"
  <2>1. /\ \A i \in 1 .. Len(c2s) : c2s[i].no = n
        /\ \A i \in 2 .. Len(c2s) : c2s[i].part # "len"
    BY <1>4 DEF OneAtATime
  <2>2. /\ \A i \in 1 .. Len(c2s') : i \in 1 .. Len(c2s) \/ i = Len(c2s) + 1
        /\ \A i \in 2 .. Len(c2s') :
             i = Len(c2s) + 1 \/ (i \in 1 .. Len(c2s) /\ i \in 2 .. Len(c2s))
    BY <1>3
  <2> QED
    BY <1>1, <1>3, <2>1, <2>2
<1>5. spc \notin Ended => s2c = <<>> /\ spc \notin {"execute", "invalid"}
  <2>1. ASSUME spc \notin Ended, c2s = <<>>
        PROVE  Wants = p
    BY <2>1 DEF Agreed
  <2>2. spc \in {"len", "execute", "invalid"} => Wants = "len"
    BY DEF Wants
  <2> QED
    BY <2>1, <2>2 DEF OneAtATime
<1> QED
  BY <1>4, <1>5 DEF OneAtATime, server

LEMMA ClientOne ==
  ASSUME Typed, Agreed, OneAtATime, Tidy',
         SendSize \/ SendData \/ Receive \/ GiveUp \/ Quit
  PROVE  OneAtATime'
<1>1. CASE SendSize
  <2>1. kind = "UPLOAD"
    <3>1. kind \in {"UPLOAD", "EMPTY", "CUT"}
      BY <1>1 DEF Typed, SendSize
    <3>2. kind # "EMPTY"
      BY <1>1, TidyCauses DEF SendSize, Upset
    <3>3. kind # "CUT"
      BY <1>1, TidyCauses DEF SendSize, Upset
    <3> QED
      BY <3>1, <3>2, <3>3
  <2>2. Sends = "size" /\ cpc # "gone" /\ cpc' # "ready"
    BY <1>1, <2>1 DEF SendSize, Sends
  <2>3. /\ c2s' = Append(c2s, Item("size"))
        /\ UNCHANGED <<n, kind, server, s2c>>
    BY <1>1 DEF SendSize
  <2> QED
    BY <2>2, <2>3, OneSent
<1>2. CASE SendData
  <2>1. Sends = "data" /\ cpc # "gone" /\ cpc' # "ready"
    BY <1>2 DEF SendData, Sends
  <2>2. /\ c2s' = Append(c2s, Item("data"))
        /\ UNCHANGED <<n, kind, server, s2c>>
    BY <1>2 DEF SendData
  <2> QED
    BY <2>1, <2>2, OneSent
<1>3. CASE Receive
  <2>1. s2c = <<n>> /\ s2c' = Tail(<<n>>)
    BY <1>3 DEF Receive, OneAtATime
  <2>2. s2c' = <<>>
    BY <2>1
  <2> QED
    BY <1>3, <2>1, <2>2 DEF Receive, OneAtATime, server
<1>4. CASE GiveUp
  BY <1>4 DEF GiveUp, OneAtATime, Ended, server
<1>5. CASE Quit
  BY <1>5 DEF Quit, OneAtATime, Ended, server
<1> QED
  BY <1>1, <1>2, <1>3, <1>4, <1>5

LEMMA ServerOne ==
  ASSUME Typed, Agreed, OneAtATime, Tidy', ServerStep
  PROVE  OneAtATime'
<1> USE DEF Goto
<1>1. CASE GoAstray
  BY <1>1 DEF GoAstray, OneAtATime, Ended, client
<1>2. CASE ShortRead
  BY <1>2 DEF ShortRead, Upset, Tidy
<1>3. CASE ReadLen
  <2>1. /\ c2s # <<>> /\ Take /\ UNCHANGED client /\ s2c' = s2c
        /\ spc \notin Ended /\ spc' \in {"authtext", "text"}
    BY <1>3 DEF ReadLen, Expect, Ended
  <2> QED
    BY <2>1, Remains, OneTaken
<1>4. CASE Authenticate
  <2>1. /\ c2s # <<>> /\ Take /\ UNCHANGED client /\ spc \notin Ended
        /\ s2c' \in {s2c, s2c \o Responses(Head(c2s).no)}
        /\ spc' \in Ended \/ (spc' = "len" /\ NextAfter(Head(c2s)) = "len")
    BY <1>4 DEF Authenticate, Expect, Respond, Ended, NextAfter, Uploads
  <2>2. s2c = <<>> /\ Head(c2s).no = n /\ n \in Nat /\ s2c \in Seq(Nat)
    BY <2>1, Remains DEF Typed
  <2>3. s2c' \in {<<>>, <<n>>}
    BY <2>1, <2>2, Response
  <2> QED
    BY <2>1, <2>3, OneTaken
<1>5. CASE ReadText
  <2>1. /\ c2s # <<>> /\ Take /\ UNCHANGED client /\ s2c' = s2c
        /\ spc \notin Ended
        /\ \/ spc' = "size"
           \/ /\ spc' \in {"execute", "invalid"}
              /\ NextAfter(Head(c2s)) = "len"
    BY <1>5 DEF ReadText, Expect, Ended, After, UploadNext, NextAfter
  <2> QED
    BY <2>1, Remains, OneTaken
<1>6. CASE ReadSize
  <2>1. /\ c2s # <<>> /\ Take /\ UNCHANGED client /\ s2c' = s2c
        /\ spc \notin Ended
        /\ \/ spc' = "data"
           \/ spc' = "invalid" /\ NextAfter(Head(c2s)) = "len"
    BY <1>6 DEF ReadSize, Expect, Ended, NextAfter, Upset, Tidy
  <2> QED
    BY <2>1, Remains, OneTaken
<1>7. CASE ReadData
  <2>1. /\ c2s # <<>> /\ Take /\ UNCHANGED client /\ s2c' = s2c
        /\ spc \notin Ended
        /\ spc' = "execute" /\ NextAfter(Head(c2s)) = "len"
    BY <1>7 DEF ReadData, Expect, Ended, NextAfter
  <2> QED
    BY <2>1, Remains, OneTaken
<1>8. CASE Reject \/ Execute
  BY <1>8, OneAnswered DEF Reject, Execute, Respond
<1>9. CASE EndOfStream
  <2>1. /\ UNCHANGED <<client, cmd, c2s, s2c>> /\ c2s = <<>> /\ cpc = "gone"
        /\ \/ spc' \in Ended
           \/ spc \in {"size", "data"} /\ spc' = "invalid"
    BY <1>9 DEF EndOfStream, StreamEnds, Ended
  <2> QED
    BY <2>1 DEF OneAtATime, Ended, client
<1>10. CASE Stray
  BY <1>10 DEF Stray, Agreed
<1>11. CASE Close
  BY <1>11 DEF Close, OneAtATime, Ended, client
<1> QED
  BY <1>1, <1>2, <1>3, <1>4, <1>5, <1>6, <1>7, <1>8, <1>9, <1>10, <1>11
  DEF ServerStep

LEMMA OInvStep ==
  ASSUME OInv, [Next]_vars
  PROVE  OInv'
<1>1. FInv'
  BY FInvStep DEF OInv
<1>2. CASE UNCHANGED vars
  BY <1>1, <1>2 DEF OInv, Tidy, OneAtATime, vars, client, server
<1>3. ASSUME Next, Tidy'
      PROVE  OneAtATime'
  <2>1. Typed /\ Tidy /\ Calm
    BY <1>3, TidyBefore DEF OInv, FInv
  <2>2. Agreed /\ OneAtATime
    BY <2>1 DEF OInv, FInv
  <2> QED
    BY <1>3, <2>1, <2>2, TypeCommandOne, ClientOne, ServerOne
    DEF Next, ClientStep
<1> QED
  BY <1>1, <1>2, <1>3 DEF OInv

LEMMA OInvInit ==
  ASSUME Init
  PROVE  OInv
<1>1. Len(c2s) = 0
  BY DEF Init
<1> QED
  BY <1>1, FInvInit DEF Init, OInv, OneAtATime

(* A response is for the command the client sent last and waits for, and   *)
(* none is left for the next command to find, unless the server went       *)
(* astray or a client did not wait for the answer to an empty file         *)
(* (main.c:436-445, 500-536; test_client.c).                               *)
THEOREM AnswersMatch == Spec => []OwnAnswer
<1>1. Init => OInv
  BY OInvInit
<1>2. OInv /\ [Next]_vars => OInv'
  BY OInvStep
<1>3. OInv => OwnAnswer
  <2>1. ASSUME OInv, Tidy
        PROVE  \A i \in DOMAIN s2c : s2c[i] = n /\ cpc # "ready"
    <3>1. s2c = <<>> \/ (s2c = <<n>> /\ cpc # "ready")
      BY <2>1 DEF OInv, OneAtATime
    <3> QED
      BY <3>1
  <2> QED
    BY <2>1 DEF OwnAnswer, Tidy
<1> QED
  BY <1>1, <1>2, <1>3, Steps, PTL
=============================================================================
