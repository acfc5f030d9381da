---------------------------- MODULE EditorProofs -----------------------------
(***************************************************************************)
(* Proofs about the modules of what is read, written and computed around a *)
(* request: Captures, Workflows, Variables and RequestForm.  What they rest *)
(* on is at the head of TrafficProofs; the captures are of the traffic whose *)
(* frames are followed there.                                              *)
(***************************************************************************)
EXTENDS TrafficProofs, Workflows, Variables, RequestForm

(***************************************************************************)
(* Captures.  The decoders are loops over a text; two loops over a text    *)
(* and over what was cut off it are followed side by side until the cut.   *)
(***************************************************************************)
\* What a loop has reached and does not leave.
LEMMA Rests ==
  ASSUME NEW f, NEW a \in Nat, \A n \in Nat : f[n] = f[a] => f[n + 1] = f[a]
  PROVE  \A n \in Nat : a <= n => f[n] = f[a]
<1> DEFINE P == {d \in Nat : f[a + d] = f[a]}
<1>1. 0 \in P
  OBVIOUS
<1>2. ASSUME NEW d \in P PROVE d + 1 \in P
  <2>1. a + d \in Nat /\ (a + d) + 1 = a + (d + 1) /\ f[a + d] = f[a]
    OBVIOUS
  <2>. QED BY <2>1
<1>3. P = Nat
  <2>1. P \subseteq Nat
    OBVIOUS
  <2> HIDE DEF P
  <2>. QED BY <1>1, <1>2, <2>1, Induction
<1>4. ASSUME NEW n \in Nat, a <= n PROVE f[n] = f[a]
  <2>1. n - a \in Nat /\ a + (n - a) = n
    BY <1>4
  <2>2. n - a \in P
    BY <1>3, <2>1
  <2>. QED BY <2>1, <2>2
<1>. QED BY <1>4

\* A beginning, element by element.
LEMMA PrefixBy ==
  ASSUME NEW S, NEW s \in Seq(S), NEW t \in Seq(S)
  PROVE  IsPrefix(s, t) <=> Len(s) <= Len(t) /\ \A i \in 1 .. Len(s) : s[i] = t[i]
<1>1. Len(s) \in Nat /\ Len(t) \in Nat
      /\ (\A i \in 1 .. Len(s) : s[i] \in S) /\ (\A i \in 1 .. Len(t) : t[i] \in S)
  BY LenProperties, ElementOfSeq
<1> DEFINE n == Len(s)
           a == SubSeq(s, 1, n)
           b == SubSeq(t, 1, n)
<1>2. SUFFICES ASSUME Len(s) <= Len(t)
               PROVE  a = b <=> \A i \in 1 .. Len(s) : s[i] = t[i]
  BY DEF IsPrefix
<1>3. n \in Int /\ 1 \in Int /\ n - 1 + 1 = n /\ \A i \in 1 .. n : t[i] \in S
  BY <1>1, <1>2
<1>4. a \in Seq(S) /\ Len(a) = n /\ \A i \in 1 .. n : a[i] = s[1 + i - 1]
  <2>1. /\ a \in Seq(S)
        /\ Len(a) = IF 1 <= n THEN n - 1 + 1 ELSE 0
        /\ \A i \in 1 .. n - 1 + 1 : a[i] = s[1 + i - 1]
    BY <1>1, <1>3, SubSeqProperties
  <2>. QED BY <1>1, <1>3, <2>1
<1>5. b \in Seq(S) /\ Len(b) = n /\ \A i \in 1 .. n : b[i] = t[1 + i - 1]
  <2>1. /\ b \in Seq(S)
        /\ Len(b) = IF 1 <= n THEN n - 1 + 1 ELSE 0
        /\ \A i \in 1 .. n - 1 + 1 : b[i] = t[1 + i - 1]
    BY <1>3, SubSeqProperties
  <2>. QED BY <1>1, <1>3, <2>1
<1>6. \A i \in 1 .. n : a[i] = s[i] /\ b[i] = t[i]
  BY <1>1, <1>4, <1>5
<1> HIDE DEF a, b
<1>7. (\A i \in 1 .. n : a[i] = b[i]) => a = b
  BY <1>4, <1>5, SeqEqual
<1>. QED BY <1>6, <1>7

\* Nothing, or one element, follows.
Follows(S, s, t) == t = s \/ \E e \in S : t = Append(s, e)

\* Beginnings of beginnings.
LEMMA PrefixFollows ==
  ASSUME NEW S, NEW r \in Seq(S), NEW s \in Seq(S), NEW t \in Seq(S)
  PROVE  /\ IsPrefix(r, r)
         /\ IsPrefix(r, s) /\ Follows(S, s, t) => IsPrefix(r, t)
<1>1. Len(r) \in Nat /\ Len(s) \in Nat /\ Len(t) \in Nat
  BY LenProperties
<1>2. IsPrefix(r, r)
  BY <1>1, PrefixBy
<1>3. ASSUME IsPrefix(r, s), NEW e \in S, t = Append(s, e) PROVE IsPrefix(r, t)
  <2>1. Len(t) = Len(s) + 1 /\ \A i \in 1 .. Len(s) + 1 : t[i] = IF i <= Len(s) THEN s[i] ELSE e
    BY <1>3, AppendProperties
  <2>2. Len(r) <= Len(s) /\ \A i \in 1 .. Len(r) : r[i] = s[i]
    BY <1>3, PrefixBy
  <2>3. ASSUME NEW i \in 1 .. Len(r) PROVE r[i] = t[i]
    <3>1. i \in 1 .. Len(s) + 1 /\ i <= Len(s)
      BY <1>1, <2>2
    <3>. QED BY <2>1, <2>2, <3>1
  <2>4. Len(r) <= Len(t)
    BY <1>1, <2>1, <2>2
  <2>. QED BY <2>3, <2>4, PrefixBy
<1>. QED BY <1>2, <1>3 DEF Follows

\* `s' is what was there of t when a part of it was yet to come.
CutOf(s, t) == Len(s) < Len(t) /\ \A i \in 1 .. Len(s) : s[i] = t[i]

\* All but the last.
LEMMA FrontIsCut ==
  ASSUME NEW S, NEW t \in Seq(S), t # <<>>
  PROVE  Front(t) \in Seq(S) /\ Len(Front(t)) + 1 = Len(t) /\ CutOf(Front(t), t)
<1> DEFINE n == Len(t) - 1
<1>1. Len(t) \in Nat \ {0} /\ \A i \in 1 .. Len(t) : t[i] \in S
  BY EmptySeq, ElementOfSeq, LenProperties
<1>2. n \in Nat /\ n \in Int /\ 1 \in Int /\ n - 1 + 1 = n /\ n + 1 = Len(t) /\ \A i \in 1 .. n : t[i] \in S
  BY <1>1
<1> HIDE DEF n
<1>3. /\ SubSeq(t, 1, n) \in Seq(S)
      /\ Len(SubSeq(t, 1, n)) = IF 1 <= n THEN n - 1 + 1 ELSE 0
      /\ \A i \in 1 .. n - 1 + 1 : SubSeq(t, 1, n)[i] = t[1 + i - 1]
  BY <1>2, SubSeqProperties
<1>4. Front(t) = SubSeq(t, 1, n)
  BY DEF Front, n
<1>5. Len(Front(t)) = n /\ \A i \in 1 .. n : Front(t)[i] = t[i]
  BY <1>2, <1>3, <1>4
<1>. QED BY <1>2, <1>3, <1>4, <1>5 DEF CutOf

\* An event stream, and what the reader has of it.
SseBodies == Seq(SseTokens)
SseEvents == [id : SseBodies, data : Seq(SseBodies)]
SseStates == [events : Seq(SseEvents), data : Seq(SseBodies), id : SseBodies]
SseReaders == [pos : Nat \ {0}, line : SseBodies, st : SseStates]
Blank == [pos |-> 1, line |-> <<>>, st |-> [events |-> <<>>, data |-> <<>>, id |-> <<>>]]

\* A line makes at most one event.
LEMMA SseLineIsRead ==
  ASSUME NEW st \in SseStates, NEW line \in SseBodies
  PROVE  /\ FieldLine(st, line) \in SseStates
         /\ Follows(SseEvents, st.events, FieldLine(st, line).events)
<1>1. st.events \in Seq(SseEvents) /\ st.data \in Seq(SseBodies) /\ st.id \in SseBodies
  BY DEF SseStates
<1>2. st = [events |-> st.events, data |-> st.data, id |-> st.id]
  BY DEF SseStates
<1>3. CASE line = <<>>
  <2>1. FieldLine(st, line) = Dispatch(st)
    BY <1>3 DEF FieldLine
  <2> DEFINE e == [id |-> st.id, data |-> st.data]
             events == IF st.data = <<>> THEN st.events ELSE Append(st.events, e)
  <2>2. e \in SseEvents
    BY <1>1 DEF SseEvents
  <2> HIDE DEF e
  <2>3. events \in Seq(SseEvents) /\ Follows(SseEvents, st.events, events)
    BY <1>1, <2>2, AppendProperties DEF Follows
  <2>4. <<>> \in Seq(SseBodies)
    BY EmptySeq
  <2>5. Dispatch(st) = [st EXCEPT !.events = events, !.data = <<>>]
    BY DEF Dispatch, e
  <2> HIDE DEF events
  <2>6. Dispatch(st) \in SseStates /\ Dispatch(st).events = events
    BY <2>3, <2>4, <2>5 DEF SseStates
  <2>. QED BY <2>1, <2>3, <2>6
<1>4. CASE line # <<>>
  <2>1. Tail(line) \in SseBodies
    BY <1>4, HeadTailProperties DEF SseBodies
  <2>2. Append(st.data, Tail(line)) \in Seq(SseBodies)
    BY <1>1, <2>1, AppendProperties
  <2>3. CASE Head(line) = "data"
    <3>1. FieldLine(st, line) = [events |-> st.events, data |-> Append(st.data, Tail(line)), id |-> st.id]
      BY <1>2, <1>4, <2>3 DEF FieldLine
    <3>. QED BY <1>1, <2>2, <3>1 DEF SseStates, Follows
  <2>4. CASE Head(line) = "id" /\ ~Contains(Tail(line), "nul")
    <3>1. FieldLine(st, line) = [events |-> st.events, data |-> st.data, id |-> Tail(line)]
      BY <1>2, <1>4, <2>4 DEF FieldLine
    <3>. QED BY <1>1, <2>1, <3>1 DEF SseStates, Follows
  <2>5. CASE Head(line) # "data" /\ ~(Head(line) = "id" /\ ~Contains(Tail(line), "nul"))
    <3>1. FieldLine(st, line) = st
      BY <1>4, <2>5 DEF FieldLine
    <3>. QED BY <3>1 DEF Follows
  <2>. QED BY <2>3, <2>4, <2>5
<1>. QED BY <1>3, <1>4

\* A turn over a text.
LEMMA TurnOverText ==
  ASSUME NEW text \in SseBodies, NEW r \in SseReaders
  PROVE  /\ ReadOn(text, r) \in SseReaders
         /\ Follows(SseEvents, r.st.events, ReadOn(text, r).st.events)
         /\ r.pos > Len(text) => ReadOn(text, r) = r
         /\ r.pos <= Len(text) =>
              /\ text[r.pos] \in SseTokens
              /\ text[r.pos] \in {"CR", "LF"} =>
                   ReadOn(text, r) = [pos |-> r.pos + NextNewline(text, r.pos), line |-> <<>>,
                                      st |-> FieldLine(r.st, r.line)]
              /\ text[r.pos] \notin {"CR", "LF"} =>
                   ReadOn(text, r) = [pos |-> r.pos + 1, line |-> Append(r.line, text[r.pos]), st |-> r.st]
<1>1. /\ r.pos \in Nat \ {0} /\ r.line \in SseBodies /\ r.st \in SseStates
      /\ r = [pos |-> r.pos, line |-> r.line, st |-> r.st]
  BY DEF SseReaders
<1>2. Len(text) \in Nat /\ \A i \in 1 .. Len(text) : text[i] \in SseTokens
  BY LenProperties, ElementOfSeq DEF SseBodies
<1>3. CASE r.pos > Len(text)
  <2>1. ReadOn(text, r) = r
    <3>1. ~(r.pos <= Len(text))
      BY <1>1, <1>2, <1>3
    <3>. QED BY <1>3, <3>1 DEF ReadOn
  <2>. QED BY <1>1, <1>2, <1>3, <2>1 DEF Follows
<1>4. CASE r.pos <= Len(text)
  <2>1. text[r.pos] \in SseTokens /\ ~(r.pos > Len(text))
    BY <1>1, <1>2, <1>4
  <2>2. CASE text[r.pos] \in {"CR", "LF"}
    <3>1. ReadOn(text, r) = [pos |-> r.pos + NextNewline(text, r.pos), line |-> <<>>,
                             st |-> FieldLine(r.st, r.line)]
      BY <1>4, <2>1, <2>2 DEF ReadOn
    <3>2. NextNewline(text, r.pos) \in {1, 2}
      BY DEF NextNewline
    <3>3. r.pos + NextNewline(text, r.pos) \in Nat \ {0}
      BY <1>1, <3>2
    <3>4. <<>> \in SseBodies
      BY EmptySeq DEF SseBodies
    <3>5. FieldLine(r.st, r.line) \in SseStates /\ Follows(SseEvents, r.st.events, FieldLine(r.st, r.line).events)
      BY <1>1, SseLineIsRead
    <3>. QED BY <1>4, <2>1, <2>2, <3>1, <3>3, <3>4, <3>5 DEF SseReaders
  <2>3. CASE text[r.pos] \notin {"CR", "LF"}
    <3>1. ReadOn(text, r) = [pos |-> r.pos + 1, line |-> Append(r.line, text[r.pos]), st |-> r.st]
      BY <1>1, <1>4, <2>1, <2>3 DEF ReadOn
    <3>2. Append(r.line, text[r.pos]) \in SseBodies
      BY <1>1, <2>1, AppendProperties DEF SseBodies
    <3>. QED BY <1>1, <1>4, <2>1, <2>3, <3>1, <3>2 DEF SseReaders, Follows
  <2>. QED BY <2>2, <2>3
<1>. QED BY <1>1, <1>2, <1>3, <1>4

\* The turns one after the other.
LEMMA LinesFollow ==
  ASSUME NEW text \in SseBodies
  PROVE  /\ ReadLines(text) \in [Nat -> SseReaders]
         /\ ReadLines(text)[0] = Blank
         /\ \A n \in Nat : ReadLines(text)[n + 1] = ReadOn(text, ReadLines(text)[n])
<1> DEFINE g == [r \in SseReaders |-> ReadOn(text, r)]
<1>1. g \in [SseReaders -> SseReaders]
  BY TurnOverText
<1>2. Blank \in SseReaders
  <2>1. /\ <<>> \in SseBodies /\ <<>> \in Seq(SseEvents) /\ <<>> \in Seq(SseBodies)
    BY EmptySeq DEF SseBodies
  <2>. QED BY <2>1 DEF Blank, SseReaders, SseStates
<1> HIDE DEF g
<1>3. PICK f \in [Nat -> SseReaders] : f = [n \in Nat |-> IF n = 0 THEN Blank ELSE g[f[n - 1]]]
  BY <1>1, <1>2, Recursion
<1>4. f = [n \in Nat |-> IF n = 0 THEN Blank ELSE ReadOn(text, f[n - 1])]
  <2>1. ASSUME NEW n \in Nat, n # 0 PROVE g[f[n - 1]] = ReadOn(text, f[n - 1])
    <3>1. n - 1 \in Nat
      BY <2>1
    <3>. QED BY <3>1 DEF g
  <2>2. ASSUME NEW n \in Nat PROVE f[n] = IF n = 0 THEN Blank ELSE ReadOn(text, f[n - 1])
    BY <1>3, <2>1
  <2>. QED BY <2>2
<1>5. ReadLines(text) = CHOOSE h : h = [n \in Nat |-> IF n = 0 THEN Blank ELSE ReadOn(text, h[n - 1])]
  BY DEF ReadLines, Blank
<1>6. ReadLines(text) = [n \in Nat |-> IF n = 0 THEN Blank ELSE ReadOn(text, ReadLines(text)[n - 1])]
  BY <1>4, <1>5
<1>7. \A n \in Nat : n + 1 \in Nat /\ n + 1 # 0 /\ (n + 1) - 1 = n
  OBVIOUS
<1> DEFINE h == ReadLines(text)
<1>8. h[0] = Blank /\ \A n \in Nat : h[n + 1] = ReadOn(text, h[n])
  <2> HIDE DEF h
  <2>1. h = [n \in Nat |-> IF n = 0 THEN Blank ELSE ReadOn(text, h[n - 1])]
    BY <1>6 DEF h
  <2>. QED BY <1>7, <2>1
<1>9. h \in [Nat -> SseReaders]
  <2> HIDE DEF h
  <2> DEFINE P == {n \in Nat : h[n] \in SseReaders}
  <2>1. 0 \in P
    BY <1>2, <1>8
  <2>2. ASSUME NEW n \in P PROVE n + 1 \in P
    BY <1>8, TurnOverText
  <2>3. P = Nat
    <3>1. P \subseteq Nat
      OBVIOUS
    <3> HIDE DEF P
    <3>. QED BY <2>1, <2>2, <3>1, Induction
  <2>4. h = [n \in Nat |-> IF n = 0 THEN Blank ELSE ReadOn(text, h[n - 1])]
    BY <1>6 DEF h
  <2>. QED BY <2>3, <2>4
<1>. QED BY <1>8, <1>9

\* Two readers over a text and over a cut of it: side by side, or the one is through.
ReadAlike(cut, r, q) ==
  \/ r = q /\ r.pos <= Len(cut)
  \/ r.pos > Len(cut) /\ IsPrefix(r.st.events, q.st.events)

\* They stay so.
LEMMA CutIsReadAlike ==
  ASSUME NEW text \in SseBodies, NEW cut \in SseBodies, CutOf(cut, text)
  PROVE  \A n \in Nat : IsPrefix(ReadLines(cut)[n].st.events, ReadLines(text)[n].st.events)
<1> DEFINE f == ReadLines(cut)
           h == ReadLines(text)
           P == {n \in Nat : ReadAlike(cut, f[n], h[n])}
<1>1. /\ f \in [Nat -> SseReaders] /\ f[0] = Blank
      /\ \A n \in Nat : f[n + 1] = ReadOn(cut, f[n])
  BY LinesFollow
<1>2. /\ h \in [Nat -> SseReaders] /\ h[0] = Blank
      /\ \A n \in Nat : h[n + 1] = ReadOn(text, h[n])
  BY LinesFollow
<1>3. /\ Len(cut) \in Nat /\ Len(text) \in Nat
      /\ Len(cut) < Len(text) /\ \A i \in 1 .. Len(cut) : cut[i] = text[i]
  BY LenProperties DEF SseBodies, CutOf
<1> HIDE DEF f, h
<1>4. ASSUME NEW r \in SseReaders
      PROVE  r.pos \in Nat \ {0} /\ r.line \in SseBodies /\ r.st \in SseStates /\ r.st.events \in Seq(SseEvents)
  BY DEF SseReaders, SseStates
<1>5. 0 \in P
  <2>1. Blank.pos = 1 /\ Blank.st.events \in Seq(SseEvents)
    BY <1>1, <1>4 DEF Blank
  <2>2. IsPrefix(Blank.st.events, Blank.st.events)
    BY <2>1, PrefixFollows
  <2>3. Blank.pos <= Len(cut) \/ Blank.pos > Len(cut)
    BY <1>3, <2>1
  <2>. QED BY <1>1, <1>2, <2>2, <2>3 DEF ReadAlike
<1>6. ASSUME NEW n \in P PROVE n + 1 \in P
  <2>1. /\ f[n] \in SseReaders /\ h[n] \in SseReaders /\ ReadAlike(cut, f[n], h[n])
        /\ f[n + 1] = ReadOn(cut, f[n]) /\ h[n + 1] = ReadOn(text, h[n])
    BY <1>1, <1>2
  <2> DEFINE r == f[n]
             q == h[n]
  <2> HIDE DEF r, q
  <2>2. /\ r \in SseReaders /\ q \in SseReaders /\ ReadAlike(cut, r, q)
        /\ f[n + 1] = ReadOn(cut, r) /\ h[n + 1] = ReadOn(text, q)
    BY <2>1 DEF r, q
  <2>3. /\ r.st.events \in Seq(SseEvents) /\ q.st.events \in Seq(SseEvents)
        /\ ReadOn(text, q) \in SseReaders /\ ReadOn(text, q).st.events \in Seq(SseEvents)
        /\ Follows(SseEvents, q.st.events, ReadOn(text, q).st.events)
    BY <1>4, <2>2, TurnOverText
  <2>4. CASE r.pos > Len(cut)
    <3>1. ReadOn(cut, r) = r
      BY <2>2, <2>4, TurnOverText
    <3>2. IsPrefix(r.st.events, q.st.events)
      BY <2>2, <2>3, PrefixFollows DEF ReadAlike
    <3>3. IsPrefix(r.st.events, ReadOn(text, q).st.events)
      BY <2>3, <3>2, PrefixFollows
    <3>. QED BY <2>2, <2>4, <3>1, <3>3 DEF ReadAlike
  <2>5. CASE r.pos <= Len(cut)
    <3>1. r = q /\ r.pos \in 1 .. Len(cut) /\ cut[r.pos] = text[r.pos] /\ r.pos <= Len(text)
      BY <1>3, <1>4, <2>2, <2>5 DEF ReadAlike
    <3>2. ReadOn(cut, r) \in SseReaders /\ ReadOn(text, r) \in SseReaders
      BY <2>2, TurnOverText
    <3>3. CASE text[r.pos] \notin {"CR", "LF"}
      <4>1. ReadOn(cut, r) = [pos |-> r.pos + 1, line |-> Append(r.line, cut[r.pos]), st |-> r.st]
        BY <2>2, <2>5, <3>1, <3>3, TurnOverText
      <4>2. ReadOn(text, r) = [pos |-> r.pos + 1, line |-> Append(r.line, text[r.pos]), st |-> r.st]
        BY <2>2, <3>1, <3>3, TurnOverText
      <4>3. ReadOn(cut, r) = ReadOn(text, r)
        BY <3>1, <4>1, <4>2
      <4>. QED BY <1>3, <1>4, <2>2, <2>3, <3>1, <3>2, <4>3, PrefixFollows DEF ReadAlike
    <3>4. CASE text[r.pos] \in {"CR", "LF"}
      <4>1. ReadOn(cut, r) = [pos |-> r.pos + NextNewline(cut, r.pos), line |-> <<>>, st |-> FieldLine(r.st, r.line)]
        BY <2>2, <2>5, <3>1, <3>4, TurnOverText
      <4>2. ReadOn(text, r) = [pos |-> r.pos + NextNewline(text, r.pos), line |-> <<>>, st |-> FieldLine(r.st, r.line)]
        BY <2>2, <3>1, <3>4, TurnOverText
      <4>3. IsPrefix(ReadOn(cut, r).st.events, ReadOn(text, r).st.events)
        BY <1>4, <3>2, <4>1, <4>2, PrefixFollows
      <4>4. CASE r.pos < Len(cut)
        <5>1. r.pos + 1 \in 1 .. Len(cut) /\ r.pos < Len(text)
          BY <1>3, <3>1, <4>4
        <5>2. cut[r.pos + 1] = text[r.pos + 1]
          BY <1>3, <5>1
        <5>3. NextNewline(cut, r.pos) = NextNewline(text, r.pos)
          BY <3>1, <4>4, <5>1, <5>2 DEF NextNewline
        <5>4. ReadOn(cut, r) = ReadOn(text, r)
          BY <4>1, <4>2, <5>3
        <5>5. ReadOn(cut, r).pos \in Nat
          BY <1>4, <3>2
        <5>6. ReadOn(cut, r).pos <= Len(cut) \/ ReadOn(cut, r).pos > Len(cut)
          BY <1>3, <5>5
        <5>. QED BY <2>2, <3>1, <4>3, <5>4, <5>6 DEF ReadAlike
      <4>5. CASE r.pos = Len(cut)
        <5>1. NextNewline(cut, r.pos) = 1
          BY <1>3, <4>5 DEF NextNewline
        <5>2. ReadOn(cut, r).pos > Len(cut)
          BY <1>3, <4>1, <4>5, <5>1
        <5>. QED BY <2>2, <3>1, <4>3, <5>2 DEF ReadAlike
      <4>. QED BY <1>3, <3>1, <4>4, <4>5
    <3>. QED BY <3>3, <3>4
  <2>. QED BY <1>3, <1>4, <2>2, <2>4, <2>5
<1>7. P = Nat
  <2>1. P \subseteq Nat
    OBVIOUS
  <2> HIDE DEF P
  <2>. QED BY <1>5, <1>6, <2>1, Induction
<1>8. ASSUME NEW n \in Nat PROVE IsPrefix(f[n].st.events, h[n].st.events)
  <2>1. ReadAlike(cut, f[n], h[n]) /\ f[n] \in SseReaders
    BY <1>1, <1>7
  <2>. QED BY <1>4, <2>1, PrefixFollows DEF ReadAlike
<1>. QED BY <1>8 DEF f, h

\* What comes later in a stream invents no event before it.
LEMMA CutStreamIsRead ==
  ASSUME NEW text \in SseBodies, text # <<>>
  PROVE  IsPrefix(ParseSse(Front(text)).events, ParseSse(text).events)
<1> DEFINE cut == Front(text)
           n == Len(cut)
<1>1. cut \in SseBodies /\ n + 1 = Len(text) /\ CutOf(cut, text)
  BY FrontIsCut DEF SseBodies
<1> HIDE DEF cut
<1>2. n \in Nat
  BY <1>1, LenProperties DEF SseBodies
<1>3. IsPrefix(ReadLines(cut)[n].st.events, ReadLines(text)[n].st.events)
  BY <1>1, <1>2, CutIsReadAlike
<1> HIDE DEF n
<1> DEFINE r == ReadLines(cut)[n]
           q == ReadLines(text)[n]
           z == ReadLines(text)[n + 1]
<1>4. r \in SseReaders /\ q \in SseReaders /\ z = ReadOn(text, q)
  BY <1>1, <1>2, LinesFollow
<1>5. ParseSse(cut) = r.st /\ ParseSse(text) = z.st
  BY <1>1 DEF ParseSse, n
<1> HIDE DEF r, q, z
<1>6. z \in SseReaders /\ Follows(SseEvents, q.st.events, z.st.events)
  BY <1>4, TurnOverText
<1>7. r.st.events \in Seq(SseEvents) /\ q.st.events \in Seq(SseEvents) /\ z.st.events \in Seq(SseEvents)
  BY <1>4, <1>6 DEF SseReaders, SseStates
<1>8. IsPrefix(r.st.events, z.st.events)
  BY <1>3, <1>6, <1>7, PrefixFollows DEF r, q
<1>. QED BY <1>5, <1>8 DEF cut

\* Who writes a stream with its line ends one by one.
Writers == [pos : Nat \ {0}, out : Seq(SseTokens \ {"CR"})]
WriterStart == [pos |-> 1, out |-> <<>>]

\* What is written for a character.
Rewritten(t) == IF t = "CR" THEN "LF" ELSE t

\* A turn of it goes as far as one of the reader.
LEMMA WriterTurns ==
  ASSUME NEW text \in SseBodies, NEW w \in Writers
  PROVE  /\ WriteOn(text, w) \in Writers
         /\ w.pos > Len(text) => WriteOn(text, w) = w
         /\ w.pos <= Len(text) =>
              /\ text[w.pos] \in SseTokens /\ Rewritten(text[w.pos]) \in SseTokens \ {"CR"}
              /\ NextNewline(text, w.pos) \in {1, 2}
              /\ WriteOn(text, w) = [pos |-> w.pos + NextNewline(text, w.pos),
                                     out |-> Append(w.out, Rewritten(text[w.pos]))]
<1>1. w.pos \in Nat \ {0} /\ w.out \in Seq(SseTokens \ {"CR"})
  BY DEF Writers
<1>2. Len(text) \in Nat /\ \A i \in 1 .. Len(text) : text[i] \in SseTokens
  BY LenProperties, ElementOfSeq DEF SseBodies
<1>3. CASE w.pos > Len(text)
  <2>1. ~(w.pos <= Len(text))
    BY <1>1, <1>2, <1>3
  <2>. QED BY <1>3, <2>1 DEF WriteOn
<1>4. CASE w.pos <= Len(text)
  <2> DEFINE t == text[w.pos]
             k == NextNewline(text, w.pos)
  <2>1. t \in SseTokens /\ ~(w.pos > Len(text))
    BY <1>1, <1>2, <1>4
  <2>2. Rewritten(t) \in SseTokens \ {"CR"} /\ k \in {1, 2}
    BY <2>1 DEF Rewritten, SseTokens, NextNewline
  <2>3. WriteOn(text, w) = [pos |-> w.pos + k, out |-> Append(w.out, Rewritten(t))]
    <3>1. CASE t = "CR"
      BY <1>4, <2>1, <3>1 DEF WriteOn, NextNewline, Rewritten
    <3>2. CASE t # "CR"
      BY <1>4, <2>1, <3>2 DEF WriteOn, NextNewline, Rewritten
    <3>. QED BY <3>1, <3>2
  <2> HIDE DEF k, t
  <2>4. w.pos + k \in Nat \ {0}
    BY <1>1, <2>2
  <2>5. Append(w.out, Rewritten(t)) \in Seq(SseTokens \ {"CR"})
    BY <1>1, <2>2, AppendProperties
  <2>6. WriteOn(text, w) \in Writers
    BY <2>3, <2>4, <2>5 DEF Writers
  <2>. QED BY <1>4, <2>1, <2>2, <2>3, <2>6 DEF k, t
<1>. QED BY <1>1, <1>2, <1>3, <1>4

\* Its turns one after the other.
LEMMA WritingFollows ==
  ASSUME NEW text \in SseBodies
  PROVE  /\ UnixWritten(text) \in [Nat -> Writers]
         /\ UnixWritten(text)[0] = WriterStart
         /\ \A n \in Nat : UnixWritten(text)[n + 1] = WriteOn(text, UnixWritten(text)[n])
<1> DEFINE g == [r \in Writers |-> WriteOn(text, r)]
<1>1. g \in [Writers -> Writers]
  BY WriterTurns
<1>2. WriterStart \in Writers
  <2>1. <<>> \in Seq(SseTokens \ {"CR"})
    BY EmptySeq
  <2>. QED BY <2>1 DEF WriterStart, Writers
<1> HIDE DEF g
<1>3. PICK f \in [Nat -> Writers] : f = [n \in Nat |-> IF n = 0 THEN WriterStart ELSE g[f[n - 1]]]
  BY <1>1, <1>2, Recursion
<1>4. f = [n \in Nat |-> IF n = 0 THEN WriterStart ELSE WriteOn(text, f[n - 1])]
  <2>1. ASSUME NEW n \in Nat, n # 0 PROVE g[f[n - 1]] = WriteOn(text, f[n - 1])
    <3>1. n - 1 \in Nat
      BY <2>1
    <3>. QED BY <3>1 DEF g
  <2>2. ASSUME NEW n \in Nat PROVE f[n] = IF n = 0 THEN WriterStart ELSE WriteOn(text, f[n - 1])
    BY <1>3, <2>1
  <2>. QED BY <2>2
<1>5. UnixWritten(text) = CHOOSE h : h = [n \in Nat |-> IF n = 0 THEN WriterStart ELSE WriteOn(text, h[n - 1])]
  BY DEF UnixWritten, WriterStart
<1>6. UnixWritten(text) = [n \in Nat |-> IF n = 0 THEN WriterStart ELSE WriteOn(text, UnixWritten(text)[n - 1])]
  BY <1>4, <1>5
<1>7. \A n \in Nat : n + 1 \in Nat /\ n + 1 # 0 /\ (n + 1) - 1 = n
  OBVIOUS
<1> DEFINE h == UnixWritten(text)
<1>8. h[0] = WriterStart /\ \A n \in Nat : h[n + 1] = WriteOn(text, h[n])
  <2> HIDE DEF h
  <2>1. h = [n \in Nat |-> IF n = 0 THEN WriterStart ELSE WriteOn(text, h[n - 1])]
    BY <1>6 DEF h
  <2>. QED BY <1>7, <2>1
<1>9. h \in [Nat -> Writers]
  <2> HIDE DEF h
  <2> DEFINE P == {n \in Nat : h[n] \in Writers}
  <2>1. 0 \in P
    BY <1>2, <1>8
  <2>2. ASSUME NEW n \in P PROVE n + 1 \in P
    BY <1>8, WriterTurns
  <2>3. P = Nat
    <3>1. P \subseteq Nat
      OBVIOUS
    <3> HIDE DEF P
    <3>. QED BY <2>1, <2>2, <3>1, Induction
  <2>4. h = [n \in Nat |-> IF n = 0 THEN WriterStart ELSE WriteOn(text, h[n - 1])]
    BY <1>6 DEF h
  <2>. QED BY <2>3, <2>4
<1>. QED BY <1>8, <1>9

\* It comes to the end, and what it has written before is the beginning of the whole.
LEMMA WritingEnds ==
  ASSUME NEW text \in SseBodies
  PROVE  /\ Unix(text) \in Seq(SseTokens \ {"CR"}) /\ Len(Unix(text)) <= Len(text)
         /\ \A n \in Nat :
              /\ UnixWritten(text)[n].pos > Len(text) => UnixWritten(text)[n].out = Unix(text)
              /\ UnixWritten(text)[n].pos <= Len(text) =>
                   /\ n + 1 <= Len(text) /\ Len(UnixWritten(text)[n].out) = n
                   /\ IsPrefix(UnixWritten(text)[n + 1].out, Unix(text))
<1> DEFINE w == UnixWritten(text)
           len == Len(text)
           Out == SseTokens \ {"CR"}
<1>1. /\ w \in [Nat -> Writers] /\ w[0] = WriterStart
      /\ \A n \in Nat : w[n + 1] = WriteOn(text, w[n])
  BY WritingFollows
<1>2. len \in Nat /\ Unix(text) = w[len].out
  BY LenProperties DEF SseBodies, Unix
<1> HIDE DEF w, len, Out
<1>3. \A n \in Nat : w[n] \in Writers /\ w[n].pos \in Nat \ {0} /\ w[n].out \in Seq(Out) /\ Len(w[n].out) \in Nat
  <2>1. ASSUME NEW n \in Nat
        PROVE  w[n] \in Writers /\ w[n].pos \in Nat \ {0} /\ w[n].out \in Seq(Out) /\ Len(w[n].out) \in Nat
    <3>1. w[n] \in Writers
      BY <1>1
    <3>2. w[n].pos \in Nat \ {0} /\ w[n].out \in Seq(Out)
      BY <3>1 DEF Writers, Out
    <3>. QED BY <3>1, <3>2, LenProperties
  <2>. QED BY <2>1
<1>4. ASSUME NEW n \in Nat, w[n].pos > len PROVE w[n + 1] = w[n]
  BY <1>1, <1>3, <1>4, WriterTurns DEF len
<1>5. ASSUME NEW n \in Nat, w[n].pos <= len
      PROVE  /\ w[n + 1].pos > w[n].pos /\ Len(w[n + 1].out) = Len(w[n].out) + 1
             /\ Follows(Out, w[n].out, w[n + 1].out)
  <2> DEFINE k == NextNewline(text, w[n].pos)
             e == Rewritten(text[w[n].pos])
  <2>1. k \in {1, 2} /\ e \in Out /\ w[n + 1] = [pos |-> w[n].pos + k, out |-> Append(w[n].out, e)]
    BY <1>1, <1>3, <1>5, WriterTurns DEF len, Out
  <2> HIDE DEF k, e
  <2>2. w[n + 1].pos = w[n].pos + k /\ w[n + 1].out = Append(w[n].out, e)
    BY <2>1
  <2>3. Len(w[n + 1].out) = Len(w[n].out) + 1
    BY <1>3, <2>1, <2>2, AppendProperties
  <2>. QED BY <1>3, <2>1, <2>2, <2>3 DEF Follows
<1>6. ASSUME NEW n \in Nat, w[n].pos > len PROVE \A m \in Nat : n <= m => w[m] = w[n]
  <2>1. ASSUME NEW m \in Nat, w[m] = w[n] PROVE w[m + 1] = w[n]
    BY <1>4, <1>6, <2>1
  <2>. QED BY <2>1, Rests
<1>7. \A n \in Nat : /\ Len(w[n].out) <= n
                     /\ w[n].pos <= len => w[n].pos > n /\ Len(w[n].out) = n
  <2> DEFINE P == {n \in Nat : /\ Len(w[n].out) <= n
                               /\ w[n].pos <= len => w[n].pos > n /\ Len(w[n].out) = n}
  <2>1. 0 \in P
    <3>1. WriterStart.pos = 1 /\ Len(WriterStart.out) = 0
      BY DEF WriterStart
    <3>. QED BY <1>1, <3>1
  <2>2. ASSUME NEW n \in P PROVE n + 1 \in P
    <3>1. n \in Nat /\ n + 1 \in Nat /\ Len(w[n].out) <= n
          /\ (w[n].pos <= len => w[n].pos > n /\ Len(w[n].out) = n)
      OBVIOUS
    <3>2. w[n].pos \in Nat /\ w[n + 1].pos \in Nat /\ Len(w[n].out) \in Nat /\ Len(w[n + 1].out) \in Nat
      BY <1>3, <3>1
    <3>3. CASE w[n].pos > len
      <4>1. w[n + 1] = w[n] /\ ~(w[n].pos <= len)
        BY <1>2, <1>4, <3>1, <3>2, <3>3
      <4>2. Len(w[n + 1].out) <= n + 1
        BY <3>1, <3>2, <4>1
      <4>. QED BY <3>1, <4>1, <4>2
    <3>4. CASE w[n].pos <= len
      <4>1. w[n + 1].pos > w[n].pos /\ Len(w[n + 1].out) = Len(w[n].out) + 1
        BY <1>5, <3>1, <3>4
      <4>. QED BY <3>1, <3>2, <3>4, <4>1
    <3>. QED BY <1>2, <3>2, <3>3, <3>4
  <2>3. P = Nat
    <3>1. P \subseteq Nat
      OBVIOUS
    <3> HIDE DEF P
    <3>. QED BY <2>1, <2>2, <3>1, Induction
  <2>. QED BY <2>3
<1>8. ASSUME NEW n \in Nat, w[n].pos > len PROVE w[n].out = Unix(text)
  <2>1. w[len].pos > len
    BY <1>2, <1>3, <1>7
  <2>2. n <= len \/ len <= n
    BY <1>2
  <2>. QED BY <1>2, <1>6, <1>8, <2>1, <2>2
<1>9. \A m \in Nat : \A n \in 0 .. m : IsPrefix(w[n].out, w[m].out)
  <2> DEFINE P == {m \in Nat : \A n \in 0 .. m : IsPrefix(w[n].out, w[m].out)}
  <2>0. \A n \in Nat : IsPrefix(w[n].out, w[n].out)
    BY <1>3, PrefixFollows
  <2>1. 0 \in P
    BY <2>0
  <2>2. ASSUME NEW m \in P PROVE m + 1 \in P
    <3>1. m \in Nat /\ m + 1 \in Nat /\ \A n \in 0 .. m : IsPrefix(w[n].out, w[m].out)
      OBVIOUS
    <3>2. Follows(Out, w[m].out, w[m + 1].out)
      <4>1. w[m].pos \in Nat
        BY <1>3, <3>1
      <4>2. CASE w[m].pos > len
        BY <1>4, <3>1, <4>2 DEF Follows
      <4>3. CASE w[m].pos <= len
        BY <1>5, <3>1, <4>3
      <4>. QED BY <1>2, <4>1, <4>2, <4>3
    <3>3. ASSUME NEW n \in 0 .. m + 1 PROVE IsPrefix(w[n].out, w[m + 1].out)
      <4>1. n \in 0 .. m \/ n = m + 1
        BY <3>1
      <4>2. n \in Nat
        BY <3>1
      <4>3. CASE n \in 0 .. m
        BY <1>3, <3>1, <3>2, <4>2, <4>3, PrefixFollows
      <4>. QED BY <2>0, <3>1, <4>1, <4>3
    <3>. QED BY <3>1, <3>3
  <2>3. P = Nat
    <3>1. P \subseteq Nat
      OBVIOUS
    <3> HIDE DEF P
    <3>. QED BY <2>1, <2>2, <3>1, Induction
  <2>. QED BY <2>3
<1>10. ASSUME NEW n \in Nat, w[n].pos <= len
       PROVE  n + 1 <= len /\ Len(w[n].out) = n /\ IsPrefix(w[n + 1].out, Unix(text))
  <2>1. n + 1 <= len /\ Len(w[n].out) = n
    BY <1>2, <1>3, <1>7, <1>10
  <2>2. n + 1 \in 0 .. len
    BY <1>2, <2>1
  <2>. QED BY <1>2, <1>9, <2>1, <2>2
<1>11. Unix(text) \in Seq(Out) /\ Len(Unix(text)) <= len
  BY <1>2, <1>3, <1>7
<1>. QED BY <1>8, <1>10, <1>11 DEF w, len, Out

\* A line ends where it ends, whichever way it is written.
LEMMA LineEndsAreOne ==
  ASSUME NEW text \in SseBodies
  PROVE  ParseSse(text) = ParseSse(Unix(text))
<1> DEFINE w == UnixWritten(text)
           u == Unix(text)
           r == ReadLines(text)
           q == ReadLines(u)
           len == Len(text)
           end == Len(u)
           Out == SseTokens \ {"CR"}
           P == {n \in Nat : /\ r[n].pos = w[n].pos /\ q[n].pos = Len(w[n].out) + 1
                             /\ r[n].line = q[n].line /\ r[n].st = q[n].st}
<1>1. /\ w \in [Nat -> Writers] /\ w[0] = WriterStart
      /\ \A n \in Nat : w[n + 1] = WriteOn(text, w[n])
  BY WritingFollows
<1>2. u \in Seq(Out) /\ end <= len
  BY WritingEnds
<1>3. \A n \in Nat : /\ w[n].pos > len => w[n].out = u
                     /\ w[n].pos <= len =>
                          n + 1 <= len /\ Len(w[n].out) = n /\ IsPrefix(w[n + 1].out, u)
  BY WritingEnds
<1>4. Out \subseteq SseTokens
  OBVIOUS
<1> HIDE DEF w, Out
<1>5. u \in SseBodies /\ end \in Nat /\ len \in Nat /\ \A i \in 1 .. end : u[i] \in Out
  <2> HIDE DEF u
  <2>1. u \in Seq(SseTokens)
    BY <1>2, <1>4, SeqMonotonic
  <2>. QED BY <1>2, <2>1, LenProperties, ElementOfSeq DEF SseBodies
<1>6. /\ r \in [Nat -> SseReaders] /\ r[0] = Blank
      /\ \A n \in Nat : r[n + 1] = ReadOn(text, r[n])
  BY LinesFollow
<1>7. /\ q \in [Nat -> SseReaders] /\ q[0] = Blank
      /\ \A n \in Nat : q[n + 1] = ReadOn(u, q[n])
  BY <1>5, LinesFollow
<1>8. ParseSse(text) = r[len].st /\ ParseSse(u) = q[end].st
  BY DEF ParseSse
<1> HIDE DEF u, r, q
<1>9. 0 \in P
  <2>1. Len(WriterStart.out) + 1 = 1 /\ WriterStart.pos = 1 /\ Blank.pos = 1
    BY DEF WriterStart, Blank
  <2>. QED BY <1>1, <1>6, <1>7, <2>1
<1>10. ASSUME NEW n \in P PROVE n + 1 \in P
  <2>1. /\ n \in Nat /\ n + 1 \in Nat /\ r[n].pos = w[n].pos /\ q[n].pos = Len(w[n].out) + 1
        /\ r[n].line = q[n].line /\ r[n].st = q[n].st
    OBVIOUS
  <2>2. /\ r[n] \in SseReaders /\ q[n] \in SseReaders /\ w[n] \in Writers
        /\ r[n + 1] = ReadOn(text, r[n]) /\ q[n + 1] = ReadOn(u, q[n]) /\ w[n + 1] = WriteOn(text, w[n])
    BY <1>1, <1>6, <1>7, <2>1
  <2>3. w[n].pos \in Nat \ {0} /\ w[n].out \in Seq(Out) /\ Len(w[n].out) \in Nat
    <3>1. w[n].pos \in Nat \ {0} /\ w[n].out \in Seq(Out)
      BY <2>2 DEF Writers, Out
    <3>. QED BY <3>1, LenProperties
  <2>4. CASE w[n].pos > len
    <3>1. w[n + 1] = w[n] /\ r[n + 1] = r[n]
      BY <2>1, <2>2, <2>4, WriterTurns, TurnOverText
    <3>2. q[n].pos > end
      BY <1>3, <1>5, <2>1, <2>3, <2>4
    <3>3. q[n + 1] = q[n]
      BY <1>5, <2>2, <3>2, TurnOverText
    <3>. QED BY <2>1, <3>1, <3>3
  <2>5. CASE w[n].pos <= len
    <3> DEFINE t == text[w[n].pos]
               e == Rewritten(t)
               k == NextNewline(text, w[n].pos)
               p == q[n].pos
    <3>1. /\ t \in SseTokens /\ e \in Out
          /\ w[n + 1] = [pos |-> w[n].pos + k, out |-> Append(w[n].out, e)]
      BY <2>2, <2>5, WriterTurns DEF Out
    <3>2. w[n + 1].pos = w[n].pos + k /\ w[n + 1].out = Append(w[n].out, e)
      BY <3>1
    <3>3. /\ w[n + 1].out \in Seq(Out) /\ Len(w[n + 1].out) = Len(w[n].out) + 1
          /\ w[n + 1].out[Len(w[n].out) + 1] = e
      <4> HIDE DEF e, k
      <4>. QED BY <2>3, <3>1, <3>2, AppendProperties
    <3>4. Len(w[n].out) + 1 <= end /\ u[Len(w[n].out) + 1] = e
      <4> DEFINE v == w[n + 1].out
      <4>1. v \in Seq(Out) /\ IsPrefix(v, u) /\ Len(v) = Len(w[n].out) + 1 /\ v[Len(w[n].out) + 1] = e
        BY <1>3, <2>1, <2>5, <3>3
      <4> HIDE DEF v, e
      <4>2. Len(v) <= end /\ \A i \in 1 .. Len(v) : v[i] = u[i]
        BY <1>2, <4>1, PrefixBy
      <4>3. Len(w[n].out) + 1 \in 1 .. Len(v)
        BY <2>3, <4>1
      <4>. QED BY <4>1, <4>2, <4>3
    <3>5. p = Len(w[n].out) + 1 /\ p <= end /\ u[p] = e /\ p \in Nat \ {0}
      BY <2>1, <2>3, <3>4
    <3>6. e # "CR" /\ (t \in {"CR", "LF"} <=> e \in {"CR", "LF"}) /\ (t \notin {"CR", "LF"} => e = t /\ k = 1)
      BY <3>1 DEF Rewritten, Out, NextNewline
    <3>7. NextNewline(u, p) = 1
      BY <3>5, <3>6 DEF NextNewline
    <3>8. r[n + 1].line = q[n + 1].line /\ r[n + 1].st = q[n + 1].st /\ r[n + 1].pos = r[n].pos + k /\ q[n + 1].pos = p + 1
      <4>1. CASE t \in {"CR", "LF"}
        <5>1. r[n + 1] = [pos |-> r[n].pos + k, line |-> <<>>, st |-> FieldLine(r[n].st, r[n].line)]
          BY <2>1, <2>2, <2>5, <4>1, TurnOverText
        <5>2. q[n + 1] = [pos |-> p + NextNewline(u, p), line |-> <<>>, st |-> FieldLine(q[n].st, q[n].line)]
          BY <1>5, <2>2, <3>5, <3>6, <4>1, TurnOverText
        <5>. QED BY <2>1, <3>7, <5>1, <5>2
      <4>2. CASE t \notin {"CR", "LF"}
        <5>1. r[n + 1] = [pos |-> r[n].pos + 1, line |-> Append(r[n].line, t), st |-> r[n].st]
          BY <2>1, <2>2, <2>5, <4>2, TurnOverText
        <5>2. q[n + 1] = [pos |-> p + 1, line |-> Append(q[n].line, e), st |-> q[n].st]
          BY <1>5, <2>2, <3>5, <3>6, <4>2, TurnOverText
        <5>. QED BY <2>1, <3>6, <4>2, <5>1, <5>2
      <4>. QED BY <4>1, <4>2
    <3> HIDE DEF k, e, t, p
    <3>9. q[n + 1].pos = Len(w[n + 1].out) + 1 /\ r[n + 1].pos = w[n + 1].pos
      BY <2>1, <2>3, <3>2, <3>3, <3>5, <3>8
    <3>. QED BY <2>1, <3>8, <3>9
  <2>. QED BY <1>5, <2>3, <2>4, <2>5
<1>11. P = Nat
  <2>1. P \subseteq Nat
    OBVIOUS
  <2> HIDE DEF P
  <2>. QED BY <1>9, <1>10, <2>1, Induction
<1>12. q[end].pos > end
  <2>1. q[end].pos = Len(w[end].out) + 1 /\ w[end] \in Writers
    BY <1>1, <1>5, <1>11
  <2>2. w[end].pos \in Nat
    BY <2>1 DEF Writers
  <2>3. w[end].pos > len \/ w[end].pos <= len
    BY <1>5, <2>2
  <2>. QED BY <1>3, <1>5, <2>1, <2>3
<1>13. q[len] = q[end]
  <2>1. ASSUME NEW m \in Nat, q[m] = q[end] PROVE q[m + 1] = q[end]
    BY <1>5, <1>7, <1>12, <2>1, TurnOverText
  <2>. QED BY <1>2, <1>5, <2>1, Rests
<1>14. r[len].st = q[len].st
  BY <1>5, <1>11
<1>. QED BY <1>8, <1>13, <1>14 DEF u

\* Messages, as bytes.
Wires == Seq(WireBytes)

\* A part of what was there.
LEMMA PartOfCut ==
  ASSUME NEW b \in Wires, NEW cut \in Wires, CutOf(cut, b), NEW i \in Nat \ {0}, NEW j \in Nat, j <= Len(cut)
  PROVE  SubSeq(cut, i, j) = SubSeq(b, i, j) /\ SubSeq(cut, i, j) \in Wires
<1>1. /\ Len(cut) \in Nat /\ Len(b) \in Nat /\ Len(cut) < Len(b)
      /\ \A k \in 1 .. Len(cut) : cut[k] = b[k] /\ cut[k] \in WireBytes
  BY LenProperties, ElementOfSeq DEF CutOf, Wires
<1>2. \A k \in i .. j : cut[k] = b[k] /\ cut[k] \in WireBytes
  <2>1. ASSUME NEW k \in i .. j PROVE k \in 1 .. Len(cut)
    BY <1>1
  <2>. QED BY <1>1, <2>1
<1> DEFINE u == SubSeq(cut, i, j)
           v == SubSeq(b, i, j)
<1>3. i \in Int /\ j \in Int
  OBVIOUS
<1>4. /\ u \in Seq(WireBytes)
      /\ Len(u) = IF i <= j THEN j - i + 1 ELSE 0
      /\ \A k \in 1 .. j - i + 1 : u[k] = cut[i + k - 1]
  BY <1>2, <1>3, SubSeqProperties
<1>5. /\ v \in Seq(WireBytes)
      /\ Len(v) = IF i <= j THEN j - i + 1 ELSE 0
      /\ \A k \in 1 .. j - i + 1 : v[k] = b[i + k - 1]
  <2>1. \A k \in i .. j : b[k] \in WireBytes
    BY <1>2
  <2>. QED BY <1>3, <2>1, SubSeqProperties
<1> HIDE DEF u, v
<1>6. ASSUME NEW k \in 1 .. Len(u) PROVE u[k] = v[k]
  <2>1. k \in 1 .. j - i + 1 /\ i + k - 1 \in i .. j
    BY <1>3, <1>4
  <2>2. u[k] = cut[i + k - 1] /\ v[k] = b[i + k - 1]
    BY <1>4, <1>5, <2>1
  <2>. QED BY <1>2, <2>1, <2>2
<1>7. u = v
  BY <1>4, <1>5, <1>6, SeqEqual
<1>. QED BY <1>4, <1>7 DEF u, v, Wires

\* The value of a varint is a number.
LEMMA VarintIsNumber ==
  ASSUME NEW bytes \in Wires
  PROVE  VarintValue(bytes) \in Nat
<1> DEFINE len == Len(bytes)
<1>1. len \in Nat /\ \A i \in 1 .. len : bytes[i] \in Nat
  <2>1. WireBytes \subseteq Nat
    BY DEF WireBytes
  <2>. QED BY <2>1, LenProperties, ElementOfSeq DEF Wires
<1> HIDE DEF len
<1> DEFINE g == [n \in 1 .. len |-> [x \in Nat |-> (bytes[len + 1 - n] % 128) + 128 * x]]
<1>2. g \in StepsTo(len, Nat)
  <2>1. ASSUME NEW n \in 1 .. len, NEW x \in Nat PROVE (bytes[len + 1 - n] % 128) + 128 * x \in Nat
    <3>1. bytes[len + 1 - n] \in Nat
      BY <1>1
    <3>2. bytes[len + 1 - n] % 128 \in Nat
      BY <3>1
    <3>. QED BY <3>2
  <2>. QED BY <2>1 DEF StepsTo
<1>3. \A n \in 1 .. len, x \in Nat : g[n][x] = (bytes[len + 1 - n] % 128) + 128 * x
  OBVIOUS
<1> HIDE DEF g
<1>4. PICK f \in [0 .. len -> Nat] : f = [n \in 0 .. len |-> IF n = 0 THEN 0 ELSE g[n][f[n - 1]]]
  <2> DEFINE S == Nat
             zero == 0
  <2>1. zero \in S /\ g \in StepsTo(len, S)
    BY <1>2
  <2>0. len \in Nat
    BY <1>1
  <2> HIDE DEF S, zero
  <2>2. \E f \in [0 .. len -> S] : f = [n \in 0 .. len |-> IF n = 0 THEN zero ELSE g[n][f[n - 1]]]
    BY <2>0, <2>1, BoundedRecursion
  <2>. QED BY <2>2 DEF S, zero
<1>5. f = [n \in 0 .. len |-> IF n = 0 THEN 0 ELSE (bytes[len + 1 - n] % 128) + 128 * f[n - 1]]
  <2>1. ASSUME NEW n \in 0 .. len
        PROVE  f[n] = IF n = 0 THEN 0 ELSE (bytes[len + 1 - n] % 128) + 128 * f[n - 1]
    <3>1. CASE n = 0
      BY <1>4, <3>1
    <3>2. CASE n # 0
      <4>1. n \in 1 .. len /\ n - 1 \in 0 .. len
        BY <1>1, <3>2
      <4>2. f[n - 1] \in Nat /\ f[n] = g[n][f[n - 1]]
        BY <1>4, <3>2, <4>1
      <4>. QED BY <1>3, <3>2, <4>1, <4>2
    <3>. QED BY <3>1, <3>2
  <2>. QED BY <2>1
<1> DEFINE Sums(h) == [n \in 0 .. len |-> IF n = 0 THEN 0 ELSE (bytes[len + 1 - n] % 128) + 128 * h[n - 1]]
           sum == CHOOSE h : h = Sums(h)
<1>6. VarintValue(bytes) = sum[len]
  BY DEF VarintValue, len
<1>7. sum = Sums(sum)
  BY <1>5
<1> HIDE DEF sum
<1>8. sum[0] = 0 /\ \A n \in 1 .. len : sum[n] = (bytes[len + 1 - n] % 128) + 128 * sum[n - 1]
  <2>1. \A n \in 1 .. len : n \in 0 .. len /\ n # 0
    BY <1>1
  <2>2. 0 \in 0 .. len
    BY <1>1
  <2>. QED BY <1>7, <2>1, <2>2
<1> DEFINE P == {n \in Nat : n <= len => sum[n] \in Nat}
<1>9. 0 \in P
  BY <1>8
<1>10. ASSUME NEW n \in P PROVE n + 1 \in P
  <2>1. SUFFICES ASSUME n + 1 <= len PROVE sum[n + 1] \in Nat
    OBVIOUS
  <2>2. n + 1 \in 1 .. len /\ (n + 1) - 1 = n /\ sum[n] \in Nat /\ len + 1 - (n + 1) \in 1 .. len
    BY <1>1, <2>1
  <2>3. bytes[len + 1 - (n + 1)] \in Nat
    BY <1>1, <2>2
  <2>4. bytes[len + 1 - (n + 1)] % 128 \in Nat
    BY <2>3
  <2>5. sum[n + 1] = (bytes[len + 1 - (n + 1)] % 128) + 128 * sum[n]
    BY <1>8, <2>2
  <2>. QED BY <2>2, <2>4, <2>5
<1>11. P = Nat
  <2>1. P \subseteq Nat
    OBVIOUS
  <2> HIDE DEF P
  <2>. QED BY <1>9, <1>10, <2>1, Induction
<1>. QED BY <1>1, <1>6, <1>11

\* Where a varint at i can end.
VarintStops(b, i) == {n \in 1 .. MAX_VARINT_BYTES : i + n - 1 <= Len(b) /\ b[i + n - 1] < 128}
EndOf(b, i) == CHOOSE k \in VarintStops(b, i) : \A j \in VarintStops(b, i) : k <= j

\* It ends at the first of them.
LEMMA VarintEnds ==
  ASSUME NEW b \in Wires, NEW i \in Nat \ {0}
  PROVE  /\ VarintStops(b, i) = {} => Varint(b, i) = Bad
         /\ VarintStops(b, i) # {} =>
              /\ EndOf(b, i) \in VarintStops(b, i) /\ \A j \in VarintStops(b, i) : EndOf(b, i) <= j
              /\ EndOf(b, i) \in Nat \ {0} /\ i + EndOf(b, i) - 1 <= Len(b)
              /\ Varint(b, i) = [ok |-> TRUE, next |-> i + EndOf(b, i),
                                 value |-> VarintValue(SubSeq(b, i, i + EndOf(b, i) - 1))]
<1>1. Varint(b, i) = IF VarintStops(b, i) = {} THEN Bad
                     ELSE [ok |-> TRUE, next |-> i + EndOf(b, i),
                           value |-> VarintValue(SubSeq(b, i, i + EndOf(b, i) - 1))]
  BY DEF Varint, VarintStops, EndOf
<1>2. ASSUME VarintStops(b, i) # {}
      PROVE  /\ EndOf(b, i) \in VarintStops(b, i) /\ \A j \in VarintStops(b, i) : EndOf(b, i) <= j
             /\ EndOf(b, i) \in Nat \ {0} /\ i + EndOf(b, i) - 1 <= Len(b)
  <2>1. VarintStops(b, i) \subseteq Nat
    BY DEF VarintStops
  <2>2. \E k \in VarintStops(b, i) : \A j \in VarintStops(b, i) : k <= j
    BY <1>2, <2>1, LeastOf
  <2>3. EndOf(b, i) \in VarintStops(b, i) /\ \A j \in VarintStops(b, i) : EndOf(b, i) <= j
    BY <2>2 DEF EndOf
  <2>4. EndOf(b, i) \in 1 .. MAX_VARINT_BYTES /\ i + EndOf(b, i) - 1 <= Len(b)
    BY <2>3 DEF VarintStops
  <2>5. EndOf(b, i) \in Nat \ {0}
    BY <2>4
  <2>. QED BY <2>3, <2>4, <2>5
<1>. QED BY <1>1, <1>2

\* What was read of bytes that end within the text.
Reads(b, i, v) ==
  /\ v.ok \in BOOLEAN
  /\ v.ok => v.value \in Nat /\ v.next \in Nat \ {0} /\ i <= v.next /\ v.next <= Len(b) + 1

\* A varint is read within the text, and what comes later does not change it.
LEMMA VarintReads ==
  ASSUME NEW b \in Wires, NEW i \in Nat \ {0}
  PROVE  /\ Reads(b, i, Varint(b, i))
         /\ \A cut \in Wires : CutOf(cut, b) /\ Varint(cut, i).ok => Varint(b, i) = Varint(cut, i)
<1>1. Len(b) \in Nat /\ \A k \in 1 .. Len(b) : b[k] \in WireBytes
  BY LenProperties, ElementOfSeq DEF Wires
<1>2. CASE VarintStops(b, i) = {}
  <2>1. Varint(b, i) = Bad
    BY <1>2, VarintEnds
  <2>2. Reads(b, i, Varint(b, i)) /\ ~Varint(b, i).ok
    BY <2>1 DEF Reads, Bad
  <2>3. ASSUME NEW cut \in Wires, CutOf(cut, b), Varint(cut, i).ok PROVE FALSE
    <3>1. VarintStops(cut, i) # {}
      BY <2>3, VarintEnds DEF Bad
    <3>2. PICK n \in VarintStops(cut, i) : TRUE
      BY <3>1
    <3>3. /\ n \in 1 .. MAX_VARINT_BYTES /\ i + n - 1 <= Len(cut) /\ cut[i + n - 1] < 128
      BY <3>2 DEF VarintStops
    <3>4. Len(cut) \in Nat /\ Len(cut) < Len(b) /\ \A k \in 1 .. Len(cut) : cut[k] = b[k]
      BY <2>3, LenProperties DEF CutOf, Wires
    <3>5. i + n - 1 \in 1 .. Len(cut) /\ i + n - 1 <= Len(b)
      BY <1>1, <3>3, <3>4
    <3>6. n \in VarintStops(b, i)
      BY <3>3, <3>4, <3>5 DEF VarintStops
    <3>. QED BY <1>2, <3>6
  <2>. QED BY <2>2, <2>3
<1>3. CASE VarintStops(b, i) # {}
  <2> DEFINE n == EndOf(b, i)
             j == i + n - 1
  <2>1. /\ n \in VarintStops(b, i) /\ \A k \in VarintStops(b, i) : n <= k
        /\ n \in Nat \ {0} /\ i + n - 1 <= Len(b)
        /\ Varint(b, i) = [ok |-> TRUE, next |-> i + n, value |-> VarintValue(SubSeq(b, i, j))]
    BY <1>3, VarintEnds
  <2> HIDE DEF n
  <2>2. SubSeq(b, i, j) \in Wires
    <3>1. i \in Int /\ j \in Int
      BY <2>1
    <3>2. \A k \in i .. j : b[k] \in WireBytes
      BY <1>1, <2>1, <3>1
    <3> HIDE DEF j
    <3>. QED BY <3>1, <3>2, SubSeqProperties DEF Wires
  <2>3. VarintValue(SubSeq(b, i, j)) \in Nat
    BY <2>2, VarintIsNumber
  <2>4. Reads(b, i, Varint(b, i)) /\ i < Varint(b, i).next
    <3> DEFINE x == VarintValue(SubSeq(b, i, j))
               v == Varint(b, i)
    <3>1. x \in Nat /\ v = [ok |-> TRUE, next |-> i + n, value |-> x]
      BY <2>1, <2>3
    <3> HIDE DEF x, v
    <3>2. v.ok = TRUE /\ v.next = i + n /\ v.value = x
      BY <3>1
    <3>3. i < i + n /\ i + n <= Len(b) + 1 /\ i <= i + n /\ i + n \in Nat \ {0}
      BY <1>1, <2>1
    <3>4. Reads(b, i, v) /\ i < v.next
      BY <3>1, <3>2, <3>3 DEF Reads
    <3>. QED BY <3>4 DEF v
  <2>5. ASSUME NEW cut \in Wires, CutOf(cut, b), Varint(cut, i).ok PROVE Varint(b, i) = Varint(cut, i)
    <3> DEFINE m == EndOf(cut, i)
    <3>1. /\ m \in VarintStops(cut, i) /\ \A k \in VarintStops(cut, i) : m <= k
          /\ m \in Nat \ {0} /\ i + m - 1 <= Len(cut)
          /\ Varint(cut, i) = [ok |-> TRUE, next |-> i + m, value |-> VarintValue(SubSeq(cut, i, i + m - 1))]
      BY <2>5, VarintEnds DEF Bad
    <3> HIDE DEF m
    <3>2. Len(cut) \in Nat /\ Len(cut) < Len(b) /\ \A k \in 1 .. Len(cut) : cut[k] = b[k]
      BY <2>5, LenProperties DEF CutOf, Wires
    <3>3. m \in VarintStops(b, i)
      <4>1. m \in 1 .. MAX_VARINT_BYTES /\ cut[i + m - 1] < 128
        BY <3>1 DEF VarintStops
      <4>2. i + m - 1 \in 1 .. Len(cut) /\ i + m - 1 <= Len(b)
        BY <1>1, <3>1, <3>2
      <4>. QED BY <3>2, <4>1, <4>2 DEF VarintStops
    <3>4. n <= m
      BY <2>1, <3>3
    <3>5. n \in VarintStops(cut, i)
      <4>1. n \in 1 .. MAX_VARINT_BYTES /\ b[i + n - 1] < 128
        BY <2>1 DEF VarintStops
      <4>2. i + n - 1 \in 1 .. Len(cut)
        BY <2>1, <3>1, <3>2, <3>4
      <4>. QED BY <3>2, <4>1, <4>2 DEF VarintStops
    <3>6. n = m
      BY <2>1, <3>1, <3>4, <3>5
    <3>7. j \in Nat /\ j <= Len(cut)
      BY <2>1, <3>1, <3>6
    <3>8. SubSeq(cut, i, j) = SubSeq(b, i, j)
      <4> HIDE DEF j
      <4>. QED BY <2>5, <3>7, PartOfCut
    <3>. QED BY <2>1, <3>1, <3>6, <3>8
  <2>. QED BY <2>4, <2>5
<1>. QED BY <1>2, <1>3

\* So many bytes are taken within the text, and what comes later does not change them.
LEMMA TakeReads ==
  ASSUME NEW b \in Wires, NEW i \in Nat \ {0}, NEW n \in Nat
  PROVE  /\ Reads(b, i, Take(b, i, n))
         /\ \A cut \in Wires : CutOf(cut, b) /\ Take(cut, i, n).ok => Take(b, i, n) = Take(cut, i, n)
<1>1. Len(b) \in Nat
  BY LenProperties DEF Wires
<1>2. Reads(b, i, Take(b, i, n))
  <2>1. CASE i + n - 1 <= Len(b)
    <3>1. Take(b, i, n) = [ok |-> TRUE, value |-> n, next |-> i + n]
      BY <2>1 DEF Take
    <3>2. i + n \in Nat \ {0} /\ i <= i + n /\ i + n <= Len(b) + 1
      BY <1>1, <2>1
    <3>. QED BY <3>1, <3>2 DEF Reads
  <2>2. CASE ~(i + n - 1 <= Len(b))
    BY <2>2 DEF Take, Bad, Reads
  <2>. QED BY <2>1, <2>2
<1>3. ASSUME NEW cut \in Wires, CutOf(cut, b), Take(cut, i, n).ok PROVE Take(b, i, n) = Take(cut, i, n)
  <2>1. Len(cut) \in Nat /\ Len(cut) < Len(b)
    BY <1>3, LenProperties DEF CutOf, Wires
  <2>2. i + n - 1 <= Len(cut)
    BY <1>3 DEF Take, Bad
  <2>3. i + n - 1 <= Len(b)
    BY <1>1, <2>1, <2>2
  <2>. QED BY <2>2, <2>3 DEF Take
<1>. QED BY <1>2, <1>3

\* What follows a tag.
FieldBody(b, tag) ==
  LET wire3 == tag.value % 8
      len == Varint(b, tag.next)
  IN CASE wire3 = 0 -> len
       [] wire3 = 1 -> Take(b, tag.next, 8)
       [] wire3 = 5 -> Take(b, tag.next, 4)
       [] wire3 = 2 /\ len.ok -> Take(b, len.next, len.value)
       [] OTHER -> Bad

\* It is read within the text, and what comes later does not change it.
LEMMA BodyReads ==
  ASSUME NEW b \in Wires, NEW tag, tag.value \in Nat, tag.next \in Nat \ {0}
  PROVE  /\ Reads(b, tag.next, FieldBody(b, tag))
         /\ FieldBody(b, tag).ok /\ tag.value % 8 = 2 => Varint(b, tag.next).ok
         /\ \A cut \in Wires : CutOf(cut, b) /\ FieldBody(cut, tag).ok => FieldBody(b, tag) = FieldBody(cut, tag)
<1> DEFINE w == tag.value % 8
           spot == tag.next
           len == Varint(b, spot)
<1>1. w \in Nat /\ spot \in Nat \ {0}
  OBVIOUS
<1>2. Reads(b, spot, len) /\ \A cut \in Wires : CutOf(cut, b) /\ Varint(cut, spot).ok => len = Varint(cut, spot)
  <2> HIDE DEF spot
  <2>. QED BY <1>1, VarintReads
<1>3. ASSUME NEW x \in Wires
      PROVE  /\ w = 0 => FieldBody(x, tag) = Varint(x, spot)
             /\ w = 1 => FieldBody(x, tag) = Take(x, spot, 8)
             /\ w = 5 => FieldBody(x, tag) = Take(x, spot, 4)
             /\ w = 2 /\ Varint(x, spot).ok => FieldBody(x, tag) = Take(x, Varint(x, spot).next, Varint(x, spot).value)
             /\ w = 2 /\ ~Varint(x, spot).ok => FieldBody(x, tag) = Bad
             /\ w \notin {0, 1, 2, 5} => FieldBody(x, tag) = Bad
  BY DEF FieldBody
<1>4. ~Bad.ok /\ Bad.ok \in BOOLEAN
  BY DEF Bad
<1> HIDE DEF w, spot, len
<1>5. CASE w = 0
  <2>1. FieldBody(b, tag) = len /\ \A cut \in Wires : FieldBody(cut, tag) = Varint(cut, spot)
    BY <1>3, <1>5 DEF len
  <2>. QED BY <1>2, <1>5, <2>1 DEF w, spot
<1>6. ASSUME NEW n \in {4, 8}, \A x \in Wires : FieldBody(x, tag) = Take(x, spot, n), w # 2
      PROVE  /\ Reads(b, spot, FieldBody(b, tag))
             /\ \A cut \in Wires : CutOf(cut, b) /\ FieldBody(cut, tag).ok => FieldBody(b, tag) = FieldBody(cut, tag)
  <2>1. n \in Nat
    OBVIOUS
  <2>2. /\ Reads(b, spot, Take(b, spot, n))
        /\ \A cut \in Wires : CutOf(cut, b) /\ Take(cut, spot, n).ok => Take(b, spot, n) = Take(cut, spot, n)
    BY <1>1, <2>1, TakeReads
  <2>. QED BY <1>6, <2>2
<1>7. CASE w = 1
  BY <1>3, <1>6, <1>7 DEF w, spot
<1>8. CASE w = 5
  BY <1>3, <1>6, <1>8 DEF w, spot
<1>9. CASE w = 2
  <2>1. CASE len.ok
    <3>1. len.next \in Nat \ {0} /\ len.value \in Nat /\ spot <= len.next
      BY <1>2, <2>1 DEF Reads
    <3> DEFINE x == len.next
               n == len.value
    <3> HIDE DEF x, n
    <3>2. FieldBody(b, tag) = Take(b, x, n)
      BY <1>3, <1>9, <2>1 DEF len, x, n
    <3>3. Reads(b, x, Take(b, x, n))
      BY <3>1, TakeReads DEF x, n
    <3>4. Reads(b, spot, FieldBody(b, tag))
      <4>1. spot \in Nat /\ x \in Nat /\ spot <= x
        BY <1>1, <3>1 DEF x
      <4>. QED BY <3>2, <3>3, <4>1 DEF Reads
    <3>5. ASSUME NEW cut \in Wires, CutOf(cut, b), FieldBody(cut, tag).ok
          PROVE  FieldBody(b, tag) = FieldBody(cut, tag)
      <4>1. Varint(cut, spot).ok
        BY <1>3, <1>4, <1>9, <3>5
      <4>2. len = Varint(cut, spot)
        BY <1>2, <3>5, <4>1
      <4>3. FieldBody(cut, tag) = Take(cut, x, n)
        BY <1>3, <1>9, <4>1, <4>2 DEF x, n
      <4>4. Take(b, x, n) = Take(cut, x, n)
        <5>1. x \in Nat \ {0} /\ n \in Nat
          BY <3>1 DEF x, n
        <5>. QED BY <3>5, <4>3, <5>1, TakeReads
      <4>. QED BY <3>2, <4>3, <4>4
    <3>. QED BY <2>1, <3>4, <3>5 DEF spot, len
  <2>2. CASE ~len.ok
    <3>1. FieldBody(b, tag) = Bad
      BY <1>3, <1>9, <2>2 DEF len
    <3>2. ASSUME NEW cut \in Wires, CutOf(cut, b), FieldBody(cut, tag).ok PROVE FALSE
      <4>1. Varint(cut, spot).ok
        BY <1>3, <1>4, <1>9, <3>2
      <4>. QED BY <1>2, <2>2, <3>2, <4>1
    <3>. QED BY <1>4, <3>1, <3>2 DEF Reads
  <2>. QED BY <2>1, <2>2
<1>10. CASE w \notin {0, 1, 2, 5}
  <2>1. \A x \in Wires : FieldBody(x, tag) = Bad
    BY <1>3, <1>10
  <2>. QED BY <1>4, <2>1 DEF Reads
<1>. QED BY <1>5, <1>7, <1>8, <1>9, <1>10

\* The kinds of fields.
KindsBy(kindOf) == {"number"} \cup {kindOf[s] : s \in Wires}
FieldsBy(kindOf) == [at : Nat \ {0}, next : Nat \ {0}, kind : KindsBy(kindOf)]

\* A field is read within the text, and what comes later does not change it.
LEMMA FieldReads ==
  ASSUME NEW b \in Wires, NEW i \in Nat \ {0}, NEW kindOf
  PROVE  /\ ReadField(b, i, kindOf).ok \in BOOLEAN
         /\ ReadField(b, i, kindOf).ok =>
              /\ ReadField(b, i, kindOf).next \in Nat \ {0} /\ ReadField(b, i, kindOf).next <= Len(b) + 1
              /\ ReadField(b, i, kindOf).kind \in KindsBy(kindOf)
         /\ \A cut \in Wires : CutOf(cut, b) /\ ReadField(cut, i, kindOf).ok =>
              ReadField(b, i, kindOf) = ReadField(cut, i, kindOf)
<1> DEFINE Wrong(x) == ~Varint(x, i).ok \/ Varint(x, i).value \div 8 = 0 \/ ~FieldBody(x, Varint(x, i)).ok
           NoneEnds == [ok |-> FALSE, next |-> 0, kind |-> "none"]
           Kind(x) == IF Varint(x, i).value % 8 = 2
                      THEN kindOf[SubSeq(x, Varint(x, Varint(x, i).next).next, FieldBody(x, Varint(x, i)).next - 1)]
                      ELSE "number"
<1>1. \A x : ReadField(x, i, kindOf) = IF Wrong(x) THEN NoneEnds
                                     ELSE [ok |-> TRUE, next |-> FieldBody(x, Varint(x, i)).next, kind |-> Kind(x)]
  BY DEF ReadField, FieldBody
<1>2. ~NoneEnds.ok /\ NoneEnds.ok \in BOOLEAN
  OBVIOUS
<1> HIDE DEF NoneEnds, Kind, Wrong
<1>3. ASSUME NEW x \in Wires, ~Wrong(x)
      PROVE  /\ Varint(x, i).ok /\ Varint(x, i).value \in Nat /\ Varint(x, i).next \in Nat \ {0}
             /\ FieldBody(x, Varint(x, i)).ok /\ Reads(x, Varint(x, i).next, FieldBody(x, Varint(x, i)))
             /\ Varint(x, i).value % 8 = 2 =>
                  /\ Varint(x, Varint(x, i).next).ok
                  /\ Varint(x, Varint(x, i).next).next \in Nat \ {0}
  <2> DEFINE tag == Varint(x, i)
  <2>1. Varint(x, i).ok /\ FieldBody(x, Varint(x, i)).ok
    BY <1>3 DEF Wrong
  <2>2. Varint(x, i).value \in Nat /\ Varint(x, i).next \in Nat \ {0}
    <3>1. Reads(x, i, Varint(x, i))
      BY VarintReads
    <3>. QED BY <2>1, <3>1 DEF Reads
  <2> HIDE DEF tag
  <2>3. tag.value \in Nat /\ tag.next \in Nat \ {0} /\ FieldBody(x, tag).ok
    BY <2>1, <2>2 DEF tag
  <2>4. /\ Reads(x, tag.next, FieldBody(x, tag))
        /\ tag.value % 8 = 2 => Varint(x, tag.next).ok
    BY <2>3, BodyReads
  <2>5. Varint(x, tag.next).ok => Varint(x, tag.next).next \in Nat \ {0}
    <3>1. Reads(x, tag.next, Varint(x, tag.next))
      BY <2>3, VarintReads
    <3>. QED BY <3>1 DEF Reads
  <2>. QED BY <2>1, <2>2, <2>4, <2>5 DEF tag
<1>4. ASSUME NEW x \in Wires, ~Wrong(x)
      PROVE  /\ FieldBody(x, Varint(x, i)).next \in Nat \ {0} /\ FieldBody(x, Varint(x, i)).next <= Len(x) + 1
             /\ Kind(x) \in KindsBy(kindOf)
  <2> DEFINE tag == Varint(x, i)
             body == FieldBody(x, tag)
             len == Varint(x, tag.next)
  <2>1. /\ body.ok /\ Reads(x, tag.next, body)
        /\ tag.value % 8 = 2 => len.next \in Nat \ {0}
    BY <1>3, <1>4
  <2>2. Kind(x) = IF tag.value % 8 = 2 THEN kindOf[SubSeq(x, len.next, body.next - 1)] ELSE "number"
    BY DEF Kind
  <2> HIDE DEF tag, body, len
  <2>3. body.next \in Nat \ {0} /\ body.next <= Len(x) + 1
    BY <2>1 DEF Reads
  <2>4. CASE tag.value % 8 = 2
    <3> DEFINE k == len.next
               j == body.next - 1
    <3>1. k \in Nat \ {0} /\ j \in Nat /\ k \in Int /\ j \in Int /\ Len(x) \in Nat /\ j <= Len(x)
      BY <2>1, <2>3, <2>4, LenProperties DEF Wires
    <3> HIDE DEF k, j
    <3>2. \A n \in k .. j : x[n] \in WireBytes
      <4>1. ASSUME NEW n \in k .. j PROVE n \in 1 .. Len(x)
        BY <3>1
      <4>. QED BY <4>1, ElementOfSeq DEF Wires
    <3>3. SubSeq(x, k, j) \in Wires
      BY <3>1, <3>2, SubSeqProperties DEF Wires
    <3>4. Kind(x) = kindOf[SubSeq(x, k, j)]
      BY <2>2, <2>4 DEF k, j
    <3>5. Kind(x) \in KindsBy(kindOf)
      BY <3>3, <3>4 DEF KindsBy
    <3>. QED BY <2>3, <3>5 DEF body, tag
  <2>5. CASE tag.value % 8 # 2
    <3>1. Kind(x) \in KindsBy(kindOf)
      BY <2>2, <2>5 DEF KindsBy
    <3>. QED BY <2>3, <3>1 DEF body, tag
  <2>. QED BY <2>4, <2>5
<1>5. ASSUME NEW cut \in Wires, CutOf(cut, b), ReadField(cut, i, kindOf).ok
      PROVE  ReadField(b, i, kindOf) = ReadField(cut, i, kindOf)
  <2> DEFINE tag == Varint(cut, i)
             body == FieldBody(cut, tag)
             len == Varint(cut, tag.next)
  <2>1. ~Wrong(cut)
    BY <1>1, <1>2, <1>5
  <2>2. /\ tag.ok /\ tag.value \in Nat /\ tag.next \in Nat \ {0} /\ body.ok
        /\ tag.value % 8 = 2 => len.ok /\ len.next \in Nat \ {0}
        /\ body.next \in Nat \ {0} /\ body.next <= Len(cut) + 1
    BY <1>3, <1>4, <2>1
  <2>3. Varint(b, i) = tag
    BY <1>5, <2>2, VarintReads
  <2> HIDE DEF tag
  <2>4. FieldBody(b, tag) = body
    BY <1>5, <2>2, BodyReads
  <2>5. tag.value % 8 = 2 => Varint(b, tag.next) = len
    BY <1>5, <2>2, VarintReads
  <2>6. ~Wrong(b)
    BY <2>1, <2>2, <2>3, <2>4 DEF Wrong, tag
  <2>7. Kind(b) = Kind(cut)
    <3>1. CASE tag.value % 8 = 2
      <4> DEFINE k == len.next
                 j == body.next - 1
      <4>1. k \in Nat \ {0} /\ j \in Nat /\ j <= Len(cut)
        BY <2>2, <3>1, <1>5, LenProperties DEF Wires
      <4>2. Kind(b) = kindOf[SubSeq(b, k, j)] /\ Kind(cut) = kindOf[SubSeq(cut, k, j)]
        BY <2>3, <2>4, <2>5, <3>1 DEF Kind, tag
      <4> HIDE DEF k, j
      <4>3. SubSeq(cut, k, j) = SubSeq(b, k, j)
        BY <1>5, <4>1, PartOfCut
      <4>. QED BY <4>2, <4>3
    <3>2. CASE tag.value % 8 # 2
      BY <2>3, <3>2 DEF Kind, tag
    <3>. QED BY <3>1, <3>2
  <2>8. ReadField(b, i, kindOf) = [ok |-> TRUE, next |-> body.next, kind |-> Kind(b)]
    BY <1>1, <2>3, <2>4, <2>6
  <2>9. ReadField(cut, i, kindOf) = [ok |-> TRUE, next |-> body.next, kind |-> Kind(cut)]
    BY <1>1, <2>1 DEF tag
  <2>. QED BY <2>7, <2>8, <2>9
<1>6. CASE Wrong(b)
  BY <1>1, <1>2, <1>5, <1>6
<1>7. CASE ~Wrong(b)
  <2> DEFINE f == ReadField(b, i, kindOf)
             next == FieldBody(b, Varint(b, i)).next
             sort == Kind(b)
  <2>1. f = [ok |-> TRUE, next |-> next, kind |-> sort]
    BY <1>1, <1>7
  <2>2. next \in Nat \ {0} /\ next <= Len(b) + 1 /\ sort \in KindsBy(kindOf)
    BY <1>4, <1>7
  <2> HIDE DEF f, next, sort
  <2>3. f.ok \in BOOLEAN /\ f.next \in Nat \ {0} /\ f.next <= Len(b) + 1 /\ f.kind \in KindsBy(kindOf)
    BY <2>1, <2>2
  <2>. QED BY <1>5, <2>3 DEF f
<1>. QED BY <1>6, <1>7

\* How far a message is parsed.
ParsersBy(kindOf) == [at : Nat \ {0}, fields : Seq(FieldsBy(kindOf)), error : BOOLEAN]
ParserStart == [at |-> 1, fields |-> <<>>, error |-> FALSE]

\* The fields end within the text.
FieldsWithin(b, p) == \A i \in 1 .. Len(p.fields) : p.fields[i].next <= Len(b) + 1

FieldAdded(p, f) ==
  [at |-> f.next, error |-> FALSE,
   fields |-> Append(p.fields, [at |-> p.at, next |-> f.next, kind |-> f.kind])]

\* A turn of the loop.
LEMMA ParserTurns ==
  ASSUME NEW b \in Wires, NEW kindOf, NEW p \in ParsersBy(kindOf)
  PROVE  /\ ParseOn(b, kindOf, p) \in ParsersBy(kindOf)
         /\ Follows(FieldsBy(kindOf), p.fields, ParseOn(b, kindOf, p).fields)
         /\ FieldsWithin(b, p) => FieldsWithin(b, ParseOn(b, kindOf, p))
         /\ p.error \/ p.at > Len(b) => ParseOn(b, kindOf, p) = p
         /\ ~p.error /\ p.at <= Len(b) =>
              /\ ~ReadField(b, p.at, kindOf).ok => /\ ParseOn(b, kindOf, p).error
                                                  /\ ParseOn(b, kindOf, p).fields = p.fields
              /\ ReadField(b, p.at, kindOf).ok => ParseOn(b, kindOf, p) = FieldAdded(p, ReadField(b, p.at, kindOf))
<1> DEFINE f == ReadField(b, p.at, kindOf)
           z == ParseOn(b, kindOf, p)
           e == [at |-> p.at, next |-> f.next, kind |-> f.kind]
<1>1. p.at \in Nat \ {0} /\ p.fields \in Seq(FieldsBy(kindOf)) /\ p.error \in BOOLEAN /\ Len(p.fields) \in Nat
  <2>1. p.at \in Nat \ {0} /\ p.fields \in Seq(FieldsBy(kindOf)) /\ p.error \in BOOLEAN
    BY DEF ParsersBy
  <2>. QED BY <2>1, LenProperties
<1>2. /\ f.ok \in BOOLEAN
      /\ f.ok => f.next \in Nat \ {0} /\ f.next <= Len(b) + 1 /\ f.kind \in KindsBy(kindOf)
  BY <1>1, FieldReads
<1>3. /\ p.error \/ p.at > Len(b) => z = p
      /\ ~(p.error \/ p.at > Len(b)) /\ ~f.ok => z = [p EXCEPT !.error = TRUE]
      /\ ~(p.error \/ p.at > Len(b)) /\ f.ok => z = [at |-> f.next, error |-> FALSE, fields |-> Append(p.fields, e)]
  BY DEF ParseOn
<1>4. Len(b) \in Nat
  BY LenProperties DEF Wires
<1> HIDE DEF z
<1>5. CASE p.error \/ p.at > Len(b)
  <2>1. z = p /\ ~(~p.error /\ p.at <= Len(b))
    BY <1>1, <1>3, <1>4, <1>5
  <2>. QED BY <1>5, <2>1 DEF Follows, z
<1>6. CASE ~(p.error \/ p.at > Len(b)) /\ ~f.ok
  <2> HIDE DEF f
  <2>1. z = [p EXCEPT !.error = TRUE]
    BY <1>3, <1>6
  <2>2. z \in ParsersBy(kindOf) /\ z.error /\ z.fields = p.fields
    BY <2>1 DEF ParsersBy
  <2>3. Follows(FieldsBy(kindOf), p.fields, z.fields) /\ (FieldsWithin(b, p) => FieldsWithin(b, z))
    BY <2>2 DEF Follows, FieldsWithin
  <2>. QED BY <1>6, <2>2, <2>3 DEF z, f
<1>7. CASE ~(p.error \/ p.at > Len(b)) /\ f.ok
  <2> HIDE DEF f
  <2>1. e \in FieldsBy(kindOf) /\ e.next = f.next
    BY <1>1, <1>2, <1>7 DEF FieldsBy
  <2>2. z = [at |-> f.next, error |-> FALSE, fields |-> Append(p.fields, e)]
    BY <1>3, <1>7
  <2>e. f.next \in Nat \ {0} /\ f.next <= Len(b) + 1
    BY <1>2, <1>7
  <2> HIDE DEF e
  <2>3. /\ Append(p.fields, e) \in Seq(FieldsBy(kindOf)) /\ Len(Append(p.fields, e)) = Len(p.fields) + 1
        /\ \A i \in 1 .. Len(p.fields) + 1 : Append(p.fields, e)[i] = IF i <= Len(p.fields) THEN p.fields[i] ELSE e
    BY <1>1, <2>1, AppendProperties
  <2>4. z \in ParsersBy(kindOf) /\ z.fields = Append(p.fields, e)
    BY <2>2, <2>3, <2>e DEF ParsersBy
  <2>5. Follows(FieldsBy(kindOf), p.fields, z.fields)
    BY <2>1, <2>4 DEF Follows
  <2>6. ASSUME FieldsWithin(b, p) PROVE FieldsWithin(b, z)
    <3>1. ASSUME NEW i \in 1 .. Len(p.fields) + 1 PROVE z.fields[i].next <= Len(b) + 1
      <4>1. CASE i <= Len(p.fields)
        <5>1. i \in 1 .. Len(p.fields)
          BY <1>1, <4>1
        <5>. QED BY <2>3, <2>4, <2>6, <4>1, <5>1 DEF FieldsWithin
      <4>2. CASE ~(i <= Len(p.fields))
        BY <2>1, <2>3, <2>4, <2>e, <4>2
      <4>. QED BY <4>1, <4>2
    <3>. QED BY <2>3, <2>4, <3>1 DEF FieldsWithin
  <2>7. z = FieldAdded(p, f)
    BY <2>2 DEF FieldAdded, e
  <2>. QED BY <1>7, <2>4, <2>5, <2>6, <2>7 DEF z, f
<1>. QED BY <1>5, <1>6, <1>7

\* What every turn keeps.
LEMMA ParserKeeps ==
  ASSUME NEW b \in Wires, NEW kindOf, NEW p \in ParsersBy(kindOf)
  PROVE  /\ ParseOn(b, kindOf, p) \in ParsersBy(kindOf)
         /\ Follows(FieldsBy(kindOf), p.fields, ParseOn(b, kindOf, p).fields)
         /\ FieldsWithin(b, p) => FieldsWithin(b, ParseOn(b, kindOf, p))
BY ParserTurns

\* The turns one after the other.
LEMMA ParsingFollows ==
  ASSUME NEW b \in Wires, NEW kindOf
  PROVE  /\ Parsed(b, kindOf) \in [Nat -> ParsersBy(kindOf)]
         /\ Parsed(b, kindOf)[0] = ParserStart
         /\ \A n \in Nat : Parsed(b, kindOf)[n + 1] = ParseOn(b, kindOf, Parsed(b, kindOf)[n])
<1> DEFINE g == [r \in ParsersBy(kindOf) |-> ParseOn(b, kindOf, r)]
<1>1. g \in [ParsersBy(kindOf) -> ParsersBy(kindOf)]
  BY ParserKeeps
<1>2. ParserStart \in ParsersBy(kindOf)
  <2>1. <<>> \in Seq(FieldsBy(kindOf))
    BY EmptySeq
  <2>. QED BY <2>1 DEF ParserStart, ParsersBy
<1> HIDE DEF g
<1>3. PICK f \in [Nat -> ParsersBy(kindOf)] : f = [n \in Nat |-> IF n = 0 THEN ParserStart ELSE g[f[n - 1]]]
  BY <1>1, <1>2, Recursion
<1>4. f = [n \in Nat |-> IF n = 0 THEN ParserStart ELSE ParseOn(b, kindOf, f[n - 1])]
  <2>1. ASSUME NEW n \in Nat, n # 0 PROVE g[f[n - 1]] = ParseOn(b, kindOf, f[n - 1])
    <3>1. n - 1 \in Nat
      BY <2>1
    <3>. QED BY <3>1 DEF g
  <2>2. ASSUME NEW n \in Nat PROVE f[n] = IF n = 0 THEN ParserStart ELSE ParseOn(b, kindOf, f[n - 1])
    BY <1>3, <2>1
  <2>. QED BY <2>2
<1>5. Parsed(b, kindOf) = CHOOSE h : h = [n \in Nat |-> IF n = 0 THEN ParserStart ELSE ParseOn(b, kindOf, h[n - 1])]
  BY DEF Parsed, ParserStart
<1>6. Parsed(b, kindOf) = [n \in Nat |-> IF n = 0 THEN ParserStart ELSE ParseOn(b, kindOf, Parsed(b, kindOf)[n - 1])]
  BY <1>4, <1>5
<1>7. \A n \in Nat : n + 1 \in Nat /\ n + 1 # 0 /\ (n + 1) - 1 = n
  OBVIOUS
<1> DEFINE h == Parsed(b, kindOf)
<1>8. h[0] = ParserStart /\ \A n \in Nat : h[n + 1] = ParseOn(b, kindOf, h[n])
  <2> HIDE DEF h
  <2>1. h = [n \in Nat |-> IF n = 0 THEN ParserStart ELSE ParseOn(b, kindOf, h[n - 1])]
    BY <1>6 DEF h
  <2>. QED BY <1>7, <2>1
<1>9. h \in [Nat -> ParsersBy(kindOf)]
  <2> HIDE DEF h
  <2> DEFINE P == {n \in Nat : h[n] \in ParsersBy(kindOf)}
  <2>1. 0 \in P
    BY <1>2, <1>8
  <2>2. ASSUME NEW n \in P PROVE n + 1 \in P
    BY <1>8, ParserKeeps
  <2>3. P = Nat
    <3>1. P \subseteq Nat
      OBVIOUS
    <3> HIDE DEF P
    <3>. QED BY <2>1, <2>2, <3>1, Induction
  <2>4. h = [n \in Nat |-> IF n = 0 THEN ParserStart ELSE ParseOn(b, kindOf, h[n - 1])]
    BY <1>6 DEF h
  <2>. QED BY <2>3, <2>4
<1>. QED BY <1>8, <1>9

\* Two parsers over a message and over a cut of it: side by side, or the one is through.
ParseAlike(cut, p, q) ==
  \/ p = q /\ ~p.error /\ p.at <= Len(cut)
  \/ (p.error \/ p.at > Len(cut)) /\ IsPrefix(p.fields, q.fields)

\* They stay so.
LEMMA CutIsParsedAlike ==
  ASSUME NEW b \in Wires, NEW cut \in Wires, CutOf(cut, b), NEW kindOf
  PROVE  \A n \in Nat : IsPrefix(Parsed(cut, kindOf)[n].fields, Parsed(b, kindOf)[n].fields)
<1> DEFINE f == Parsed(cut, kindOf)
           h == Parsed(b, kindOf)
           Fields == FieldsBy(kindOf)
           P == {n \in Nat : ParseAlike(cut, f[n], h[n])}
<1>1. /\ f \in [Nat -> ParsersBy(kindOf)] /\ f[0] = ParserStart
      /\ \A n \in Nat : f[n + 1] = ParseOn(cut, kindOf, f[n])
  BY ParsingFollows
<1>2. /\ h \in [Nat -> ParsersBy(kindOf)] /\ h[0] = ParserStart
      /\ \A n \in Nat : h[n + 1] = ParseOn(b, kindOf, h[n])
  BY ParsingFollows
<1>3. Len(cut) \in Nat /\ Len(b) \in Nat /\ Len(cut) < Len(b)
  BY LenProperties DEF Wires, CutOf
<1> HIDE DEF f, h, Fields
<1>4. ASSUME NEW p \in ParsersBy(kindOf)
      PROVE  p.at \in Nat \ {0} /\ p.fields \in Seq(Fields) /\ p.error \in BOOLEAN
  BY DEF ParsersBy, Fields
<1>5. 0 \in P
  <2>1. ParserStart.at = 1 /\ ParserStart.fields \in Seq(Fields) /\ ~ParserStart.error
    BY <1>1, <1>4 DEF ParserStart
  <2>2. IsPrefix(ParserStart.fields, ParserStart.fields)
    BY <2>1, PrefixFollows
  <2>3. ParserStart.at <= Len(cut) \/ ParserStart.at > Len(cut)
    BY <1>3, <2>1
  <2>. QED BY <1>1, <1>2, <2>1, <2>2, <2>3 DEF ParseAlike
<1>6. ASSUME NEW n \in P PROVE n + 1 \in P
  <2>1. /\ f[n] \in ParsersBy(kindOf) /\ h[n] \in ParsersBy(kindOf) /\ ParseAlike(cut, f[n], h[n])
        /\ f[n + 1] = ParseOn(cut, kindOf, f[n]) /\ h[n + 1] = ParseOn(b, kindOf, h[n])
    BY <1>1, <1>2
  <2> DEFINE p == f[n]
             q == h[n]
             p1 == ParseOn(cut, kindOf, p)
             q1 == ParseOn(b, kindOf, q)
  <2> HIDE DEF p, q
  <2>2. /\ p \in ParsersBy(kindOf) /\ q \in ParsersBy(kindOf) /\ ParseAlike(cut, p, q)
        /\ f[n + 1] = p1 /\ h[n + 1] = q1
    BY <2>1 DEF p, q
  <2>3. /\ p.at \in Nat \ {0} /\ p.fields \in Seq(Fields) /\ p.error \in BOOLEAN
        /\ q.fields \in Seq(Fields) /\ q1 \in ParsersBy(kindOf) /\ q1.fields \in Seq(Fields)
        /\ Follows(Fields, q.fields, q1.fields)
        /\ p1 \in ParsersBy(kindOf)
    <3>1. q1 \in ParsersBy(kindOf) /\ Follows(Fields, q.fields, q1.fields) /\ p1 \in ParsersBy(kindOf)
      BY <2>2, ParserKeeps DEF Fields
    <3> HIDE DEF p1, q1
    <3>. QED BY <1>4, <2>2, <3>1
  <2>4. CASE p.error \/ p.at > Len(cut)
    <3>1. p1 = p
      BY <2>2, <2>4, ParserTurns
    <3>2. IsPrefix(p.fields, q.fields)
      BY <2>2, <2>3, PrefixFollows DEF ParseAlike
    <3> HIDE DEF p1, q1
    <3>3. IsPrefix(p.fields, q1.fields)
      BY <2>3, <3>2, PrefixFollows
    <3>. QED BY <2>2, <2>4, <3>1, <3>3 DEF ParseAlike
  <2>5. CASE ~(p.error \/ p.at > Len(cut))
    <3>1. p = q /\ ~p.error /\ p.at <= Len(cut) /\ p.at <= Len(b)
      BY <1>3, <2>2, <2>3, <2>5 DEF ParseAlike
    <3>2. ReadField(cut, p.at, kindOf).ok \in BOOLEAN
      BY <2>3, FieldReads
    <3>3. CASE ~ReadField(cut, p.at, kindOf).ok
      <4>1. p1.error /\ p1.fields = p.fields
        <5>1. ~p.error /\ p.at <= Len(cut)
          BY <3>1
        <5>. QED BY <2>2, <3>3, <5>1, ParserTurns
      <4>2. IsPrefix(q.fields, q.fields)
        BY <2>3, PrefixFollows
      <4> HIDE DEF p1, q1
      <4>3. IsPrefix(p1.fields, q1.fields)
        BY <2>3, <3>1, <4>1, <4>2, PrefixFollows
      <4>. QED BY <2>2, <4>1, <4>3 DEF ParseAlike
    <3>4. CASE ReadField(cut, p.at, kindOf).ok
      <4> DEFINE r == ReadField(cut, p.at, kindOf)
                 e == [at |-> p.at, next |-> r.next, kind |-> r.kind]
      <4>1. ReadField(b, p.at, kindOf) = r
        BY <2>3, <3>4, FieldReads
      <4>2. p1 = [at |-> r.next, error |-> FALSE, fields |-> Append(p.fields, e)]
        <5>1. ~p.error /\ p.at <= Len(cut)
          BY <3>1
        <5>. QED BY <2>2, <3>4, <5>1, ParserTurns DEF FieldAdded
      <4>3. q1 = [at |-> r.next, error |-> FALSE, fields |-> Append(p.fields, e)]
        <5>1. q \in ParsersBy(kindOf) /\ ~q.error /\ q.at <= Len(b) /\ ReadField(b, q.at, kindOf) = r
          BY <2>2, <3>1, <4>1
        <5>2. q1 = FieldAdded(q, r)
          BY <3>4, <5>1, ParserTurns
        <5>. QED BY <3>1, <5>2 DEF FieldAdded
      <4>4. p1 = q1 /\ ~p1.error
        BY <4>2, <4>3
      <4> HIDE DEF p1, q1
      <4>5. IsPrefix(p1.fields, q1.fields) /\ p1.at \in Nat
        BY <1>4, <2>3, <4>4, PrefixFollows
      <4>6. p1.at <= Len(cut) \/ p1.at > Len(cut)
        BY <1>3, <4>5
      <4>. QED BY <2>2, <4>4, <4>5, <4>6 DEF ParseAlike
    <3>. QED BY <3>2, <3>3, <3>4
  <2>. QED BY <2>4, <2>5
<1>7. P = Nat
  <2>1. P \subseteq Nat
    OBVIOUS
  <2> HIDE DEF P
  <2>. QED BY <1>5, <1>6, <2>1, Induction
<1>8. ASSUME NEW n \in Nat PROVE IsPrefix(f[n].fields, h[n].fields)
  <2>1. ParseAlike(cut, f[n], h[n]) /\ f[n] \in ParsersBy(kindOf)
    BY <1>1, <1>7
  <2>2. f[n].fields \in Seq(Fields)
    BY <1>4, <2>1
  <2>. QED BY <2>1, <2>2, PrefixFollows DEF ParseAlike
<1>. QED BY <1>8 DEF f, h

\* What comes later in a message invents no field before it, and no field runs past it.
LEMMA CutMessageIsRead ==
  ASSUME NEW b \in Wires
  PROVE  /\ b # <<>> => IsPrefix(DecodeProtobuf(Front(b)).fields, DecodeProtobuf(b).fields)
         /\ \A i \in DOMAIN DecodeProtobuf(b).fields : DecodeProtobuf(b).fields[i].next <= Len(b) + 1
<1> DEFINE kindOf == PayloadKinds[MAX_DEPTH]
           h == Parsed(b, kindOf)
<1>1. /\ h \in [Nat -> ParsersBy(kindOf)] /\ h[0] = ParserStart
      /\ \A n \in Nat : h[n + 1] = ParseOn(b, kindOf, h[n])
  <2> HIDE DEF kindOf
  <2>. QED BY ParsingFollows
<1>2. Len(b) \in Nat /\ DecodeProtobuf(b) = h[Len(b)]
  BY LenProperties DEF Wires, DecodeProtobuf, ReadFields
<1>3. ASSUME b # <<>> PROVE IsPrefix(DecodeProtobuf(Front(b)).fields, DecodeProtobuf(b).fields)
  <2> DEFINE cut == Front(b)
             n == Len(cut)
             f == Parsed(cut, kindOf)
  <2>1. cut \in Wires /\ n + 1 = Len(b) /\ CutOf(cut, b)
    BY <1>3, FrontIsCut DEF Wires
  <2>2. DecodeProtobuf(cut) = f[n]
    BY DEF DecodeProtobuf, ReadFields
  <2> HIDE DEF cut, kindOf
  <2>3. n \in Nat /\ n + 1 \in Nat
    BY <2>1, LenProperties DEF Wires
  <2>4. IsPrefix(f[n].fields, h[n].fields)
    BY <2>1, <2>3, CutIsParsedAlike
  <2>5. f[n] \in ParsersBy(kindOf)
    <3>1. f \in [Nat -> ParsersBy(kindOf)]
      BY <2>1, ParsingFollows
    <3>. QED BY <2>3, <3>1
  <2> HIDE DEF f, h, n
  <2>6. h[n] \in ParsersBy(kindOf) /\ h[n + 1] \in ParsersBy(kindOf) /\ h[n + 1] = ParseOn(b, kindOf, h[n])
    BY <1>1, <2>3
  <2>7. Follows(FieldsBy(kindOf), h[n].fields, h[n + 1].fields)
    BY <2>6, ParserKeeps
  <2>8. /\ f[n].fields \in Seq(FieldsBy(kindOf)) /\ h[n].fields \in Seq(FieldsBy(kindOf))
        /\ h[n + 1].fields \in Seq(FieldsBy(kindOf))
    BY <2>5, <2>6 DEF ParsersBy
  <2>9. IsPrefix(f[n].fields, h[n + 1].fields)
    BY <2>4, <2>7, <2>8, PrefixFollows
  <2>. QED BY <1>2, <2>1, <2>2, <2>9 DEF cut
<1> HIDE DEF h, kindOf
<1>4. \A n \in Nat : FieldsWithin(b, h[n])
  <2> DEFINE P == {n \in Nat : FieldsWithin(b, h[n])}
  <2>1. 0 \in P
    <3>1. Len(ParserStart.fields) = 0
      BY DEF ParserStart
    <3>. QED BY <1>1, <3>1 DEF FieldsWithin
  <2>2. ASSUME NEW n \in P PROVE n + 1 \in P
    BY <1>1, ParserKeeps
  <2>3. P = Nat
    <3>1. P \subseteq Nat
      OBVIOUS
    <3> HIDE DEF P
    <3>. QED BY <2>1, <2>2, <3>1, Induction
  <2>. QED BY <2>3
<1>5. DOMAIN h[Len(b)].fields = 1 .. Len(h[Len(b)].fields)
  <2>1. h[Len(b)] \in ParsersBy(kindOf)
    BY <1>1, <1>2
  <2>2. h[Len(b)].fields \in Seq(FieldsBy(kindOf))
    BY <2>1 DEF ParsersBy
  <2>. QED BY <2>2, LenProperties
<1>. QED BY <1>2, <1>3, <1>4, <1>5 DEF FieldsWithin

\* Texts, as bytes, and where the next character begins.
Runes == Seq(Utf8Bytes)
NextCharacter(b, i) == IF Whole(b, i) THEN i + b[i] ELSE i

\* A whole character ends within the text.
LEMMA CharacterTurn ==
  ASSUME NEW b \in Runes, NEW i \in 1 .. Len(b) + 1
  PROVE  /\ NextCharacter(b, i) \in 1 .. Len(b) + 1
         /\ Whole(b, i) => i \in 1 .. Len(b) /\ b[i] \in 1 .. 4 /\ NextCharacter(b, i) = i + b[i]
         /\ ~Whole(b, i) => NextCharacter(b, i) = i
         /\ i = Len(b) + 1 => ~Whole(b, i)
<1>1. Len(b) \in Nat
  BY LenProperties DEF Runes
<1>2. CASE Whole(b, i)
  <2>1. i \in 1 .. Len(b)
    BY <1>1, <1>2 DEF Whole
  <2>2. b[i] \in 0 .. 4 /\ b[i] # 0 /\ i + b[i] - 1 <= Len(b)
    BY <1>2, <2>1, ElementOfSeq DEF Whole, Runes, Utf8Bytes
  <2>3. NextCharacter(b, i) = i + b[i]
    BY <1>2 DEF NextCharacter
  <2>. QED BY <1>1, <1>2, <2>1, <2>2, <2>3
<1>3. CASE ~Whole(b, i)
  <2>1. NextCharacter(b, i) = i
    BY <1>3 DEF NextCharacter
  <2>. QED BY <1>3, <2>1
<1>. QED BY <1>2, <1>3

\* Where the characters begin, one after the other.
LEMMA CharactersFollow ==
  ASSUME NEW b \in Runes
  PROVE  /\ CharacterStarts(b) \in [Nat -> (1 .. Len(b) + 1)]
         /\ CharacterStarts(b)[0] = 1
         /\ \A n \in Nat : CharacterStarts(b)[n + 1] = NextCharacter(b, CharacterStarts(b)[n])
<1> DEFINE g == [r \in (1 .. Len(b) + 1) |-> NextCharacter(b, r)]
<1>1. g \in [(1 .. Len(b) + 1) -> (1 .. Len(b) + 1)]
  BY CharacterTurn
<1>2. 1 \in 1 .. Len(b) + 1
  BY LenProperties DEF Runes
<1> HIDE DEF g
<1>3. PICK f \in [Nat -> (1 .. Len(b) + 1)] : f = [n \in Nat |-> IF n = 0 THEN 1 ELSE g[f[n - 1]]]
  <2> DEFINE S == 1 .. Len(b) + 1
             first == 1
  <2>1. first \in S /\ g \in [S -> S]
    BY <1>1, <1>2
  <2> HIDE DEF S, first
  <2>2. \E f \in [Nat -> S] : f = [n \in Nat |-> IF n = 0 THEN first ELSE g[f[n - 1]]]
    BY <2>1, Recursion
  <2>. QED BY <2>2 DEF S, first
<1>4. f = [n \in Nat |-> IF n = 0 THEN 1 ELSE NextCharacter(b, f[n - 1])]
  <2>1. ASSUME NEW n \in Nat, n # 0 PROVE g[f[n - 1]] = NextCharacter(b, f[n - 1])
    <3>1. n - 1 \in Nat
      BY <2>1
    <3>. QED BY <3>1 DEF g
  <2>2. ASSUME NEW n \in Nat PROVE f[n] = IF n = 0 THEN 1 ELSE NextCharacter(b, f[n - 1])
    BY <1>3, <2>1
  <2>. QED BY <2>2
<1>5. CharacterStarts(b) = CHOOSE h : h = [n \in Nat |-> IF n = 0 THEN 1 ELSE NextCharacter(b, h[n - 1])]
  BY DEF CharacterStarts, NextCharacter
<1>6. CharacterStarts(b) = [n \in Nat |-> IF n = 0 THEN 1 ELSE NextCharacter(b, CharacterStarts(b)[n - 1])]
  BY <1>4, <1>5
<1>7. \A n \in Nat : n + 1 \in Nat /\ n + 1 # 0 /\ (n + 1) - 1 = n
  OBVIOUS
<1> DEFINE h == CharacterStarts(b)
<1>8. h[0] = 1 /\ \A n \in Nat : h[n + 1] = NextCharacter(b, h[n])
  <2> HIDE DEF h
  <2>1. h = [n \in Nat |-> IF n = 0 THEN 1 ELSE NextCharacter(b, h[n - 1])]
    BY <1>6 DEF h
  <2>. QED BY <1>7, <2>1
<1>9. h \in [Nat -> (1 .. Len(b) + 1)]
  <2> HIDE DEF h
  <2> DEFINE P == {n \in Nat : h[n] \in (1 .. Len(b) + 1)}
  <2>1. 0 \in P
    BY <1>2, <1>8
  <2>2. ASSUME NEW n \in P PROVE n + 1 \in P
    <3>1. n \in Nat /\ n + 1 \in Nat /\ h[n] \in (1 .. Len(b) + 1)
      OBVIOUS
    <3>2. h[n + 1] = NextCharacter(b, h[n])
      BY <1>8, <3>1
    <3> DEFINE i == h[n]
    <3>3. i \in 1 .. Len(b) + 1
      BY <3>1
    <3> HIDE DEF i
    <3>4. NextCharacter(b, i) \in 1 .. Len(b) + 1
      BY <3>3, CharacterTurn
    <3>. QED BY <3>1, <3>2, <3>4 DEF i
  <2>3. P = Nat
    <3>1. P \subseteq Nat
      OBVIOUS
    <3> HIDE DEF P
    <3>. QED BY <2>1, <2>2, <3>1, Induction
  <2>4. h = [n \in Nat |-> IF n = 0 THEN 1 ELSE NextCharacter(b, h[n - 1])]
    BY <1>6 DEF h
  <2>. QED BY <2>3, <2>4
<1>. QED BY <1>8, <1>9

\* Of a text that is whole characters, one stands wherever one begins.
LEMMA DecodesWhole ==
  ASSUME NEW b \in Runes, Decodes(b), NEW n \in Nat, CharacterStarts(b)[n] <= Len(b)
  PROVE  Whole(b, CharacterStarts(b)[n])
<1> DEFINE spot == CharacterStarts(b)
           len == Len(b)
<1>1. /\ spot \in [Nat -> 1 .. len + 1] /\ \A m \in Nat : spot[m + 1] = NextCharacter(b, spot[m])
  BY CharactersFollow
<1>2. len \in Nat /\ spot[len] = len + 1
  BY LenProperties DEF Runes, Decodes
<1> HIDE DEF spot, len
<1>3. SUFFICES ASSUME ~Whole(b, spot[n]) PROVE FALSE
  BY DEF spot
<1>4. ASSUME NEW a \in Nat, ~Whole(b, spot[a]) PROVE \A m \in Nat : a <= m => spot[m] = spot[a]
  <2>1. ASSUME NEW m \in Nat, spot[m] = spot[a] PROVE spot[m + 1] = spot[a]
    <3>1. spot[m] \in 1 .. Len(b) + 1
      BY <1>1 DEF len
    <3>. QED BY <1>1, <1>4, <2>1, <3>1, CharacterTurn
  <2>. QED BY <2>1, Rests
<1>5. spot[n] # len + 1
  BY <1>1, <1>2 DEF spot, len
<1>6. CASE n <= len
  <2>1. spot[len] = spot[n]
    BY <1>2, <1>3, <1>4, <1>6
  <2>. QED BY <1>2, <1>5, <2>1
<1>7. CASE len <= n
  <2>1. ~Whole(b, spot[len])
    <3>1. spot[len] \in 1 .. Len(b) + 1 /\ spot[len] = Len(b) + 1
      BY <1>1, <1>2 DEF len
    <3>. QED BY <3>1, CharacterTurn
  <2>2. spot[n] = spot[len]
    BY <1>2, <1>4, <1>7, <2>1
  <2>. QED BY <1>2, <1>5, <2>2
<1>. QED BY <1>2, <1>6, <1>7

\* They follow each other to the end.
LEMMA CharactersAdvance ==
  ASSUME NEW b \in Runes, Decodes(b)
  PROVE  \A n \in Nat :
           /\ CharacterStarts(b)[n] > n \/ CharacterStarts(b)[n] = Len(b) + 1
           /\ \A k \in 0 .. n : CharacterStarts(b)[k] <= CharacterStarts(b)[n]
<1> DEFINE spot == CharacterStarts(b)
           P == {n \in Nat : /\ spot[n] > n \/ spot[n] = Len(b) + 1
                             /\ \A k \in 0 .. n : spot[k] <= spot[n]}
<1>1. /\ spot \in [Nat -> 1 .. Len(b) + 1] /\ spot[0] = 1
      /\ \A m \in Nat : spot[m + 1] = NextCharacter(b, spot[m])
  BY CharactersFollow
<1>2. Len(b) \in Nat
  BY LenProperties DEF Runes
<1>3. \A n \in Nat : spot[n] <= Len(b) => Whole(b, spot[n])
  BY DecodesWhole
<1> HIDE DEF spot
<1>4. 0 \in P
  <2>1. \A k \in 0 .. 0 : k = 0
    OBVIOUS
  <2>2. spot[0] > 0 /\ \A k \in 0 .. 0 : spot[k] <= spot[0]
    BY <1>1, <2>1
  <2>. QED BY <2>2
<1>5. ASSUME NEW n \in P PROVE n + 1 \in P
  <2>1. /\ n \in Nat /\ n + 1 \in Nat /\ (spot[n] > n \/ spot[n] = Len(b) + 1)
        /\ \A k \in 0 .. n : spot[k] <= spot[n]
    OBVIOUS
  <2>2. spot[n] \in 1 .. Len(b) + 1 /\ spot[n + 1] = NextCharacter(b, spot[n]) /\ spot[n + 1] \in 1 .. Len(b) + 1
    BY <1>1, <2>1
  <2>3. spot[n + 1] >= spot[n] /\ (spot[n + 1] > n + 1 \/ spot[n + 1] = Len(b) + 1)
    <3>1. CASE spot[n] <= Len(b)
      <4>1. Whole(b, spot[n])
        BY <1>3, <2>1, <3>1
      <4>2. b[spot[n]] \in 1 .. 4 /\ spot[n + 1] = spot[n] + b[spot[n]]
        BY <2>2, <4>1, CharacterTurn
      <4>. QED BY <1>2, <2>1, <2>2, <3>1, <4>2
    <3>2. CASE spot[n] = Len(b) + 1
      <4>1. spot[n + 1] = spot[n]
        BY <2>2, <3>2, CharacterTurn
      <4>. QED BY <1>2, <3>2, <4>1
    <3>. QED BY <1>2, <2>2, <3>1, <3>2
  <2>4. ASSUME NEW k \in 0 .. n + 1 PROVE spot[k] <= spot[n + 1]
    <3>1. k \in 0 .. n \/ k = n + 1
      BY <2>1
    <3>2. CASE k \in 0 .. n
      <4>0. k \in Nat
        BY <3>2
      <4>1. spot[k] \in 1 .. Len(b) + 1 /\ spot[k] <= spot[n]
        BY <1>1, <2>1, <3>2, <4>0
      <4>. QED BY <1>2, <2>2, <2>3, <4>1
    <3>3. CASE k = n + 1
      BY <1>2, <2>2, <3>3
    <3>. QED BY <3>1, <3>2, <3>3
  <2>. QED BY <2>1, <2>3, <2>4
<1>6. P = Nat
  <2>1. P \subseteq Nat
    OBVIOUS
  <2> HIDE DEF P
  <2>. QED BY <1>4, <1>5, <2>1, Induction
<1>. QED BY <1>6 DEF spot

\* A beginning of a text.
LEMMA Beginning ==
  ASSUME NEW S, NEW b \in Seq(S), NEW k \in 0 .. Len(b)
  PROVE  /\ SubSeq(b, 1, k) \in Seq(S) /\ Len(SubSeq(b, 1, k)) = k
         /\ \A i \in 1 .. k : SubSeq(b, 1, k)[i] = b[i]
         /\ IsPrefix(SubSeq(b, 1, k), b)
<1>1. Len(b) \in Nat /\ \A i \in 1 .. Len(b) : b[i] \in S
  BY LenProperties, ElementOfSeq
<1>2. k \in Nat /\ k \in Int /\ 1 \in Int /\ k <= Len(b) /\ k - 1 + 1 = k /\ \A i \in 1 .. k : b[i] \in S
  BY <1>1
<1> DEFINE s == SubSeq(b, 1, k)
<1>3. /\ s \in Seq(S)
      /\ Len(s) = IF 1 <= k THEN k - 1 + 1 ELSE 0
      /\ \A i \in 1 .. k - 1 + 1 : s[i] = b[1 + i - 1]
  BY <1>2, SubSeqProperties
<1> HIDE DEF s
<1>4. Len(s) = k /\ \A i \in 1 .. k : s[i] = b[i]
  BY <1>2, <1>3
<1>5. IsPrefix(s, b)
  BY <1>2, <1>3, <1>4, PrefixBy
<1>. QED BY <1>3, <1>4, <1>5 DEF s

\* A text that is cut where a character begins is whole characters.
LEMMA CutTextDecodes ==
  ASSUME NEW b \in Runes, Decodes(b), NEW n \in Nat
  PROVE  Decodes(SubSeq(b, 1, CharacterStarts(b)[n] - 1))
<1> DEFINE spot == CharacterStarts(b)
           end == spot[n]
           k0 == end - 1
           c == SubSeq(b, 1, k0)
           of == CharacterStarts(c)
<1>1. /\ spot \in [Nat -> 1 .. Len(b) + 1] /\ spot[0] = 1
      /\ \A m \in Nat : spot[m + 1] = NextCharacter(b, spot[m])
  BY CharactersFollow
<1>2. Len(b) \in Nat
  BY LenProperties DEF Runes
<1>3. end \in 1 .. Len(b) + 1 /\ k0 \in 0 .. Len(b) /\ k0 + 1 = end
  <2>1. end \in 1 .. Len(b) + 1
    BY <1>1
  <2> HIDE DEF end
  <2>. QED BY <1>2, <2>1
<1>4. \A m \in Nat : /\ spot[m] <= Len(b) => Whole(b, spot[m])
                     /\ spot[m] > m \/ spot[m] = Len(b) + 1
                     /\ \A k \in 0 .. m : spot[k] <= spot[m]
  BY DecodesWhole, CharactersAdvance
<1> HIDE DEF spot, end, k0
<1>5. c \in Runes /\ Len(c) = k0 /\ \A i \in 1 .. k0 : c[i] = b[i]
  BY <1>3, Beginning DEF Runes
<1> HIDE DEF c
<1>6. /\ of \in [Nat -> 1 .. Len(c) + 1] /\ of[0] = 1
      /\ \A m \in Nat : of[m + 1] = NextCharacter(c, of[m])
  BY <1>5, CharactersFollow
<1> HIDE DEF of
<1> DEFINE P == {k \in Nat : k <= n => of[k] = spot[k]}
<1>7. 0 \in P
  BY <1>1, <1>6
<1>8. ASSUME NEW k \in P PROVE k + 1 \in P
  <2>1. SUFFICES ASSUME k + 1 <= n PROVE of[k + 1] = spot[k + 1]
    OBVIOUS
  <2>2. k \in Nat /\ of[k] = spot[k] /\ k + 1 \in 0 .. n /\ k \in 0 .. n
    BY <2>1
  <2> DEFINE i == spot[k]
  <2>3. i \in 1 .. Len(b) + 1 /\ i \in 1 .. Len(c) + 1 /\ spot[k + 1] = NextCharacter(b, i) /\ of[k + 1] = NextCharacter(c, i)
    BY <1>1, <1>6, <2>2
  <2>4. spot[k + 1] <= end /\ i <= end
    BY <1>4, <2>2 DEF end
  <2> HIDE DEF i
  <2>5. CASE i <= Len(b)
    <3>1. Whole(b, i)
      BY <1>4, <2>2, <2>5 DEF i
    <3>2. i \in 1 .. Len(b) /\ b[i] \in 1 .. 4 /\ spot[k + 1] = i + b[i]
      BY <2>3, <3>1, CharacterTurn
    <3>3. i + b[i] - 1 <= k0 /\ i \in 1 .. k0
      BY <1>2, <1>3, <2>4, <3>2
    <3>4. c[i] = b[i]
      BY <1>5, <3>3
    <3>5. ASSUME NEW j \in i + 1 .. i + c[i] - 1 PROVE c[j] = 0
      <4>1. j \in 1 .. k0 /\ j \in i + 1 .. i + b[i] - 1
        BY <1>3, <3>2, <3>3, <3>4
      <4>. QED BY <1>5, <3>1, <4>1 DEF Whole
    <3>6. Whole(c, i)
      BY <1>3, <1>5, <3>2, <3>3, <3>4, <3>5 DEF Whole
    <3>. QED BY <1>5, <2>3, <3>2, <3>4, <3>6, CharacterTurn
  <2>6. CASE i = Len(b) + 1
    <3>1. spot[k + 1] = i
      BY <2>3, <2>6, CharacterTurn
    <3>2. i = Len(c) + 1
      BY <1>2, <1>3, <1>5, <2>3, <2>6
    <3>3. of[k + 1] = i
      BY <1>5, <2>3, <3>2, CharacterTurn
    <3>. QED BY <3>1, <3>3
  <2>. QED BY <1>2, <2>3, <2>5, <2>6
<1>9. P = Nat
  <2>1. P \subseteq Nat
    OBVIOUS
  <2> HIDE DEF P
  <2>. QED BY <1>7, <1>8, <2>1, Induction
<1>10. of[n] = Len(c) + 1
  BY <1>3, <1>5, <1>9 DEF end
<1>11. Len(c) \in Nat
  BY <1>3, <1>5
<1>12. CASE n <= Len(c)
  <2>1. ASSUME NEW m \in Nat, of[m] = of[n] PROVE of[m + 1] = of[n]
    <3>1. of[m] \in 1 .. Len(c) + 1
      BY <1>6
    <3>. QED BY <1>5, <1>6, <1>10, <2>1, <3>1, CharacterTurn
  <2>2. of[Len(c)] = of[n]
    BY <1>11, <1>12, <2>1, Rests
  <2>. QED BY <1>10, <2>2 DEF Decodes, of, c, k0, end, spot
<1>13. CASE Len(c) < n
  <2>1. of[Len(c)] = spot[Len(c)] /\ Len(c) \in 0 .. n
    BY <1>9, <1>11, <1>13
  <2>2. /\ spot[Len(c)] > Len(c) \/ spot[Len(c)] = Len(b) + 1
        /\ spot[Len(c)] <= end /\ spot[Len(c)] \in 1 .. Len(b) + 1
    BY <1>1, <1>4, <1>11, <2>1 DEF end
  <2>3. spot[Len(c)] = end
    BY <1>2, <1>3, <1>5, <1>11, <2>2
  <2>. QED BY <1>3, <1>5, <2>1, <2>3 DEF Decodes, of, c, k0, end, spot
<1>. QED BY <1>11, <1>12, <1>13

\* A preview that was cut inside a character still shows the text before it.
LEMMA CutTextIsShown ==
  ASSUME NEW b \in Runes, Decodes(b), b # <<>>
  PROVE  ~PreviewBytes(b).base64 /\ IsPrefix(PreviewBytes(b).preview, b)
<1> DEFINE spot == CharacterStarts(b)
           len == Len(b)
           cut == len > PreviewCap
           head == IF cut THEN SubSeq(b, 1, PreviewCap) ELSE b
           texts == {t \in Trims(cut) : t < Len(head) /\ Decodes(SubSeq(head, 1, Len(head) - t))}
           trim == CHOOSE t \in texts : \A u \in texts : t <= u
<1>1. PreviewBytes(b) = IF texts = {} THEN [base64 |-> TRUE, preview |-> head]
                        ELSE [base64 |-> FALSE, preview |-> SubSeq(head, 1, Len(head) - trim)]
  BY DEF PreviewBytes
<1>2. len \in Nat \ {0} /\ PreviewCap \in Nat /\ PreviewCap >= 4
  BY EmptySeq, LenProperties, CapturesAssumption DEF Runes
<1>3. Trims(cut) \subseteq Nat
  BY DEF Trims
<1>4. /\ head \in Runes /\ Len(head) \in Nat \ {0} /\ Len(head) <= len
      /\ \A i \in 1 .. Len(head) : head[i] = b[i]
  <2>1. CASE cut
    <3>1. PreviewCap \in 0 .. Len(b) /\ head = SubSeq(b, 1, PreviewCap)
      BY <1>2, <2>1
    <3>2. head \in Runes /\ Len(head) = PreviewCap /\ \A i \in 1 .. PreviewCap : head[i] = b[i]
      BY <3>1, Beginning DEF Runes
    <3>. QED BY <1>2, <2>1, <3>2
  <2>2. CASE ~cut
    BY <1>2, <2>2
  <2>. QED BY <2>1, <2>2
<1>5. texts # {}
  <2>1. CASE ~cut
    <3>1. head = b /\ 0 \in Trims(cut) /\ Len(head) - 0 = len /\ 0 < Len(head)
      BY <1>2, <2>1 DEF Trims
    <3>2. SubSeq(b, 1, len) = b
      BY SubSeqFull DEF Runes
    <3>3. 0 \in texts
      BY <3>1, <3>2
    <3>. QED BY <3>3
  <2>2. CASE cut
    <3> DEFINE T == {n \in Nat : spot[n] > PreviewCap + 1}
    <3>1. /\ spot \in [Nat -> 1 .. len + 1] /\ spot[0] = 1
          /\ \A m \in Nat : spot[m + 1] = NextCharacter(b, spot[m])
      BY CharactersFollow
    <3>2. len \in T
      BY <1>2, <2>2 DEF Decodes
    <3>3. PICK n \in T : \A m \in T : n <= m
      <4>1. T \subseteq Nat /\ T # {}
        BY <3>2
      <4> HIDE DEF T
      <4>. QED BY <4>1, LeastOf
    <3> DEFINE k == n - 1
    <3>4. n \in Nat /\ n # 0 /\ k \in Nat /\ k + 1 = n /\ k < n
      <4>1. spot[n] > PreviewCap + 1 /\ n \in Nat
        OBVIOUS
      <4>2. n # 0
        BY <1>2, <3>1, <4>1
      <4>. QED BY <4>1, <4>2
    <3>5. spot[k] \in 1 .. len + 1 /\ spot[k] <= PreviewCap + 1 /\ spot[k + 1] > PreviewCap + 1 /\ spot[k + 1] \in 1 .. len + 1
      <4>1. k \notin T
        BY <3>3, <3>4
      <4>. QED BY <1>2, <3>1, <3>4, <4>1
    <3> HIDE DEF k, T
    <3>6. Whole(b, spot[k])
      BY <1>2, <2>2, <3>4, <3>5, DecodesWhole
    <3>7. b[spot[k]] \in 1 .. 4 /\ spot[k + 1] = spot[k] + b[spot[k]]
      BY <3>1, <3>4, <3>5, <3>6, CharacterTurn
    <3> DEFINE i == spot[k]
               w == b[i]
               t == PreviewCap + 1 - i
    <3>8. i \in Nat \ {0} /\ t \in 0 .. 3 /\ PreviewCap - t = i - 1 /\ t < PreviewCap /\ i - 1 \in 1 .. PreviewCap
      <4>1. /\ i \in 1 .. len + 1 /\ i <= PreviewCap + 1 /\ w \in 1 .. 4
            /\ i + w > PreviewCap + 1
        BY <3>5, <3>7
      <4> HIDE DEF i, w, len
      <4>2. i \in Nat /\ i \in Int /\ w \in Int /\ w <= 4 /\ i >= 1 /\ len \in Int
        BY <1>2, <4>1
      <4>3. i > PreviewCap + 1 - 4
        BY <1>2, <4>1, <4>2
      <4>. QED BY <1>2, <4>1, <4>2, <4>3
    <3>9. Decodes(SubSeq(b, 1, i - 1))
      BY <3>4, CutTextDecodes
    <3> HIDE DEF i, t
    <3>10. head = SubSeq(b, 1, PreviewCap) /\ Len(head) = PreviewCap
      <4>1. PreviewCap \in 0 .. Len(b)
        BY <1>2, <2>2
      <4>. QED BY <2>2, <4>1, Beginning DEF Runes
    <3>11. SubSeq(head, 1, PreviewCap - t) = SubSeq(b, 1, i - 1)
      <4> DEFINE j == i - 1
      <4>1. j \in 1 .. Len(head) /\ j \in 0 .. Len(head) /\ j \in 0 .. len
        BY <1>2, <1>4, <3>8, <3>10
      <4> HIDE DEF j, head
      <4>2. /\ SubSeq(head, 1, j) \in Seq(Utf8Bytes) /\ Len(SubSeq(head, 1, j)) = j
            /\ \A m \in 1 .. j : SubSeq(head, 1, j)[m] = head[m]
        BY <1>4, <4>1, Beginning DEF Runes
      <4>3. /\ SubSeq(b, 1, j) \in Seq(Utf8Bytes) /\ Len(SubSeq(b, 1, j)) = j
            /\ \A m \in 1 .. j : SubSeq(b, 1, j)[m] = b[m]
        BY <4>1, Beginning DEF Runes
      <4>4. \A m \in 1 .. j : SubSeq(head, 1, j)[m] = SubSeq(b, 1, j)[m]
        <5>1. \A m \in 1 .. j : m \in 1 .. Len(head)
          BY <1>4, <4>1
        <5>. QED BY <1>4, <4>2, <4>3, <5>1
      <4>5. SubSeq(head, 1, j) = SubSeq(b, 1, j)
        BY <4>2, <4>3, <4>4, SeqEqual
      <4>. QED BY <3>8, <4>5 DEF j
    <3>12. t \in Trims(cut)
      BY <2>2, <3>8 DEF Trims
    <3>13. t \in texts
      BY <3>8, <3>9, <3>10, <3>11, <3>12
    <3>. QED BY <3>13
  <2>. QED BY <2>1, <2>2
<1>6. trim \in texts
  <2>1. texts \subseteq Nat
    BY <1>3
  <2> HIDE DEF texts
  <2>2. \E t \in texts : \A u \in texts : t <= u
    BY <1>5, <2>1, LeastOf
  <2>. QED BY <2>2
<1>7. trim \in Nat /\ trim < Len(head)
  BY <1>3, <1>6
<1> HIDE DEF trim
<1>8. PreviewBytes(b) = [base64 |-> FALSE, preview |-> SubSeq(head, 1, Len(head) - trim)]
  BY <1>1, <1>5
<1> HIDE DEF texts, head
<1> DEFINE k == Len(head) - trim
           shown == SubSeq(head, 1, k)
<1>9. k \in 0 .. Len(head)
  BY <1>4, <1>7
<1> HIDE DEF k
<1>10. /\ shown \in Runes /\ Len(shown) = k /\ \A i \in 1 .. k : shown[i] = head[i]
  BY <1>4, <1>9, Beginning DEF Runes
<1> HIDE DEF shown
<1>11. IsPrefix(shown, b)
  <2>1. Len(shown) <= Len(b) /\ \A i \in 1 .. Len(shown) : shown[i] = b[i]
    BY <1>2, <1>4, <1>9, <1>10
  <2>. QED BY <1>10, <2>1, PrefixBy DEF Runes
<1>. QED BY <1>8, <1>11 DEF shown, k

\* The characters of a frame, and frames.
FrameCharacters == {"1", "2", "3", "4", "5", "7", "-", "/", "n", ",", "J"}
SocketFrames == Seq(FrameCharacters)

\* One text after another, and the five texts of a frame.
Join(s, t) == s \o t
FrameOf(h, c, n, k, q) == Join(Join(Join(Join(h, c), n), k), q)

\* The texts of a frame, joined, by place.
LEMMA TextsJoin ==
  ASSUME NEW s \in SocketFrames, NEW t \in SocketFrames
  PROVE  /\ Join(s, t) \in SocketFrames /\ Len(Join(s, t)) = Len(s) + Len(t)
         /\ \A x \in 1 .. Len(s) : Join(s, t)[x] = s[x]
         /\ \A x \in 1 .. Len(t) : Join(s, t)[Len(s) + x] = t[x]
<1> DEFINE u == Join(s, t)
<1>1. Len(s) \in Nat /\ Len(t) \in Nat
  BY LenProperties DEF SocketFrames
<1>2. /\ u \in Seq(FrameCharacters) /\ Len(u) = Len(s) + Len(t)
      /\ \A x \in 1 .. Len(s) + Len(t) : u[x] = IF x <= Len(s) THEN s[x] ELSE t[x - Len(s)]
  BY ConcatProperties, Zenon DEF SocketFrames, Join
<1> HIDE DEF u
<1>3. \A x \in 1 .. Len(s) : u[x] = s[x]
  BY <1>1, <1>2
<1>4. ASSUME NEW x \in 1 .. Len(t) PROVE u[Len(s) + x] = t[x]
  <2>1. Len(s) + x \in 1 .. Len(s) + Len(t) /\ ~(Len(s) + x <= Len(s)) /\ Len(s) + x - Len(s) = x
    BY <1>1
  <2>. QED BY <1>2, <2>1
<1>5. u \in SocketFrames
  BY <1>2 DEF SocketFrames
<1>. QED BY <1>2, <1>3, <1>4, <1>5 DEF u

\* A piece of a text, found by its place.
LEMMA PieceAt ==
  ASSUME NEW text \in SocketFrames, NEW s \in SocketFrames, NEW i \in Nat \ {0},
         i + Len(s) - 1 <= Len(text), \A x \in 1 .. Len(s) : text[i + x - 1] = s[x]
  PROVE  SubSeq(text, i, i + Len(s) - 1) = s
<1> DEFINE e == i + Len(s) - 1
           piece == SubSeq(text, i, e)
<1>1. Len(s) \in Nat /\ Len(text) \in Nat /\ \A x \in 1 .. Len(text) : text[x] \in FrameCharacters
  BY LenProperties, ElementOfSeq DEF SocketFrames
<1>2. e \in Int /\ i \in Int /\ e - i + 1 = Len(s) /\ (i <= e <=> Len(s) > 0)
  BY <1>1
<1>3. \A x \in i .. e : text[x] \in FrameCharacters
  <2>1. ASSUME NEW x \in i .. e PROVE x \in 1 .. Len(text)
    BY <1>1
  <2>. QED BY <1>1, <2>1
<1> HIDE DEF e
<1>4. /\ piece \in Seq(FrameCharacters)
      /\ Len(piece) = IF i <= e THEN e - i + 1 ELSE 0
      /\ \A x \in 1 .. e - i + 1 : piece[x] = text[i + x - 1]
  BY <1>2, <1>3, SubSeqProperties DEF SocketFrames
<1> HIDE DEF piece
<1>5. Len(piece) = Len(s) /\ \A x \in 1 .. Len(s) : piece[x] = s[x]
  BY <1>1, <1>2, <1>4
<1>6. piece = s
  BY <1>4, <1>5, SeqEqual DEF SocketFrames
<1>. QED BY <1>6 DEF piece, e

\* The digits that stand at a place are read, all of them and nothing else.
LEMMA DigitsRead ==
  ASSUME NEW text \in SocketFrames, NEW d \in SocketFrames, NEW i \in Nat \ {0},
         i + Len(d) - 1 <= Len(text), \A x \in 1 .. Len(d) : text[i + x - 1] = d[x] /\ d[x] \in Digits,
         i + Len(d) <= Len(text) => text[i + Len(d)] \notin Digits
  PROVE  ReadDigits(text, i) = d
<1> DEFINE e0 == i + Len(d) - 1
           Ends(e) == /\ \A k \in i .. e : text[k] \in Digits
                      /\ e = Len(text) \/ text[e + 1] \notin Digits
           end == CHOOSE e \in i - 1 .. Len(text) : Ends(e)
<1>1. Len(d) \in Nat /\ Len(text) \in Nat
  BY LenProperties DEF SocketFrames
<1>2. e0 \in i - 1 .. Len(text) /\ e0 + 1 = i + Len(d) /\ e0 \in Int
  BY <1>1
<1>3. \A k \in i .. e0 : text[k] \in Digits
  <2>1. ASSUME NEW k \in i .. e0 PROVE text[k] \in Digits
    <3> DEFINE x == k - i + 1
    <3>1. x \in 1 .. Len(d) /\ i + x - 1 = k
      BY <1>1
    <3> HIDE DEF x
    <3>. QED BY <3>1
  <2>. QED BY <2>1
<1>4. e0 = Len(text) \/ text[e0 + 1] \notin Digits
  BY <1>1, <1>2
<1> HIDE DEF e0
<1>5. \A e \in i - 1 .. Len(text) : Ends(e) => e = e0
  <2>1. ASSUME NEW e \in i - 1 .. Len(text), Ends(e), e < e0 PROVE FALSE
    <3>1. e + 1 \in i .. e0 /\ e # Len(text)
      BY <1>1, <1>2, <2>1
    <3>. QED BY <1>3, <2>1, <3>1
  <2>2. ASSUME NEW e \in i - 1 .. Len(text), Ends(e), e > e0 PROVE FALSE
    <3>1. e0 + 1 \in i .. e /\ e0 # Len(text)
      BY <1>1, <1>2, <2>2
    <3>. QED BY <1>4, <2>2, <3>1
  <2>. QED BY <1>2, <2>1, <2>2
<1>6. Ends(e0)
  BY <1>3, <1>4
<1>7. end = e0
  <2> HIDE DEF Ends
  <2>. QED BY <1>2, <1>5, <1>6
<1>8. ReadDigits(text, i) = SubSeq(text, i, end)
  BY DEF ReadDigits
<1> HIDE DEF end
<1>. QED BY <1>7, <1>8, PieceAt DEF e0

\* The mark that ends a namespace.
Comma == ","

\* The comma is a character of its own.
LEMMA CommaIsAMark ==
  Comma \in FrameCharacters /\ Comma # "/" /\ Comma # "n"
BY Zenon DEF Comma, FrameCharacters

\* A namespace is read up to its comma.
LEMMA NamespaceRead ==
  ASSUME NEW text \in SocketFrames, NEW i \in Nat \ {0}, i + 2 <= Len(text),
         text[i] = "/", text[i + 1] = "n", text[i + 2] = Comma
  PROVE  Namespace(text, i) = <<"/", "n">>
<1> DEFINE Ends(e) == /\ e = Len(text) + 1 \/ text[e] = Comma
                      /\ \A k \in i .. e - 1 : text[k] # Comma
           end == CHOOSE e \in i .. Len(text) + 1 : Ends(e)
           ns == <<"/", "n">>
           j == i + 2
<1>1. Len(text) \in Nat
  BY LenProperties DEF SocketFrames
<1>2. j \in i .. Len(text) + 1 /\ j \in i .. Len(text)
  BY <1>1
<1>3. Ends(j)
  <2>1. \A k \in i .. j - 1 : k = i \/ k = i + 1
    OBVIOUS
  <2>. QED BY <2>1, CommaIsAMark
<1>4. \A e \in i .. Len(text) + 1 : Ends(e) => e = j
  <2>1. ASSUME NEW e \in i .. Len(text) + 1, Ends(e), e # j PROVE FALSE
    <3>1. CASE e > j
      <4>1. j \in i .. e - 1
        BY <1>1, <3>1
      <4>. QED BY <2>1, <4>1
    <3>2. CASE e < j
      <4>1. (e = i \/ e = i + 1) /\ e # Len(text) + 1
        BY <1>1, <3>2
      <4>2. text[e] # Comma
        BY <4>1, CommaIsAMark
      <4>. QED BY <2>1, <4>1, <4>2
    <3>. QED BY <1>1, <2>1, <3>1, <3>2
  <2>. QED BY <2>1
<1>5. end = j
  <2> HIDE DEF Ends, j
  <2>. QED BY <1>2, <1>3, <1>4
<1>6. Namespace(text, i) = SubSeq(text, i, end - 1)
  <2>1. Namespace(text, i) = IF i > Len(text) \/ text[i] # "/" THEN <<>> ELSE SubSeq(text, i, end - 1)
    BY Zenon DEF Namespace, Comma
  <2>2. ~(i > Len(text)) /\ text[i] = "/"
    BY <1>1
  <2>. QED BY <2>1, <2>2
<1>7. ns \in SocketFrames /\ Len(ns) = 2 /\ ns[1] = "/" /\ ns[2] = "n"
  <2>1. "/" \in FrameCharacters /\ "n" \in FrameCharacters
    BY Zenon DEF FrameCharacters
  <2>. QED BY <2>1 DEF SocketFrames
<1> HIDE DEF end, ns
<1>8. SubSeq(text, i, i + Len(ns) - 1) = ns
  <2>1. i + Len(ns) - 1 <= Len(text)
    BY <1>1, <1>7
  <2>2. ASSUME NEW x \in 1 .. Len(ns) PROVE text[i + x - 1] = ns[x]
    <3>1. x \in 1 .. 2
      BY <1>7
    <3>2. x = 1 \/ x = 2
      BY <3>1
    <3>3. i + 1 - 1 = i /\ i + 2 - 1 = i + 1
      OBVIOUS
    <3>. QED BY <1>7, <3>2, <3>3
  <2>. QED BY <1>7, <2>1, <2>2, PieceAt
<1>9. i + Len(ns) - 1 = end - 1
  BY <1>1, <1>5, <1>7
<1>. QED BY <1>6, <1>8, <1>9 DEF ns

\* The parts of a frame that follow its type.
CountPart(p) == IF p.attachments = <<>> THEN <<>> ELSE Append(p.attachments, "-")
NamespacePart(p) == IF p.namespace = <<>> THEN <<>> ELSE Append(p.namespace, ",")

\* What the parts of a packet are.
LEMMA PacketParts ==
  ASSUME NEW p \in Packets
  PROVE  /\ p = [type |-> p.type, attachments |-> p.attachments, namespace |-> p.namespace,
                 ackId |-> p.ackId, payload |-> p.payload]
         /\ <<"4", p.type>> \in SocketFrames
         /\ p.type # "5" \/ p.type = "5"
         /\ \/ p.attachments = <<>> /\ CountPart(p) = <<>>
            \/ /\ p.attachments = <<"1">> /\ CountPart(p) \in SocketFrames /\ Len(CountPart(p)) = 2
               /\ CountPart(p)[1] = "1" /\ CountPart(p)[2] = "-"
         /\ \/ p.namespace = <<>> /\ NamespacePart(p) = <<>>
            \/ /\ p.namespace = <<"/", "n">> /\ NamespacePart(p) \in SocketFrames /\ Len(NamespacePart(p)) = 3
               /\ NamespacePart(p)[1] = "/" /\ NamespacePart(p)[2] = "n" /\ NamespacePart(p)[3] = Comma
         /\ p.ackId \in {<<>>, <<"1", "7">>}
         /\ p.payload \in {<<>>, <<"J">>}
<1>1. /\ p = [type |-> p.type, attachments |-> p.attachments, namespace |-> p.namespace,
              ackId |-> p.ackId, payload |-> p.payload]
      /\ p.type \in {"2", "3", "5"} /\ p.attachments \in {<<>>, <<"1">>}
      /\ p.namespace \in {<<>>, <<"/", "n">>} /\ p.ackId \in {<<>>, <<"1", "7">>}
      /\ p.payload \in {<<>>, <<"J">>}
  BY DEF Packets
<1>2. /\ "1" \in FrameCharacters /\ "2" \in FrameCharacters /\ "3" \in FrameCharacters
      /\ "4" \in FrameCharacters /\ "5" \in FrameCharacters /\ "-" \in FrameCharacters
      /\ "/" \in FrameCharacters /\ "n" \in FrameCharacters
  BY Zenon DEF FrameCharacters
<1>3. <<"4", p.type>> \in SocketFrames
  BY <1>1, <1>2 DEF SocketFrames
<1>4. ASSUME p.attachments = <<"1">>
      PROVE  /\ CountPart(p) \in SocketFrames /\ Len(CountPart(p)) = 2
             /\ CountPart(p)[1] = "1" /\ CountPart(p)[2] = "-"
  <2> DEFINE one == <<"1">>
  <2>1. one \in SocketFrames /\ Len(one) = 1 /\ one[1] = "1" /\ one # <<>>
    BY <1>2 DEF SocketFrames
  <2> HIDE DEF one
  <2> DEFINE dash == "-"
             a == Append(one, dash)
  <2>2. dash \in FrameCharacters
    BY <1>2
  <2> HIDE DEF dash
  <2>3. /\ a \in Seq(FrameCharacters) /\ Len(a) = Len(one) + 1
        /\ \A i \in 1 .. Len(one) : a[i] = one[i]
        /\ a[Len(one) + 1] = dash
    <3>1. one \in Seq(FrameCharacters)
      BY <2>1 DEF SocketFrames
    <3>. QED BY ONLY <2>2, <3>1, AppendProperties DEF a
  <2> HIDE DEF a
  <2>4. a \in SocketFrames /\ Len(a) = 2 /\ a[1] = "1" /\ a[2] = dash
    BY <2>1, <2>3 DEF SocketFrames
  <2>5. CountPart(p) = a
    BY <1>4, <2>1 DEF CountPart, one, a, dash
  <2>. QED BY <2>4, <2>5 DEF dash
<1>5. ASSUME p.namespace = <<"/", "n">>
      PROVE  /\ NamespacePart(p) \in SocketFrames /\ Len(NamespacePart(p)) = 3
             /\ NamespacePart(p)[1] = "/" /\ NamespacePart(p)[2] = "n" /\ NamespacePart(p)[3] = Comma
  <2> DEFINE ns == <<"/", "n">>
  <2>1. ns \in SocketFrames /\ Len(ns) = 2 /\ ns[1] = "/" /\ ns[2] = "n" /\ ns # <<>>
    BY <1>2 DEF SocketFrames
  <2> HIDE DEF ns
  <2> DEFINE a == Append(ns, Comma)
  <2>2. /\ a \in Seq(FrameCharacters) /\ Len(a) = Len(ns) + 1
        /\ \A i \in 1 .. Len(ns) : a[i] = ns[i]
        /\ a[Len(ns) + 1] = Comma
    <3>1. ns \in Seq(FrameCharacters)
      BY <2>1 DEF SocketFrames
    <3>. QED BY ONLY <3>1, AppendProperties, CommaIsAMark DEF a
  <2> HIDE DEF a
  <2>3. p.namespace = ns /\ ns # <<>>
    BY <1>5, <2>1 DEF ns
  <2>4. NamespacePart(p) = a
    BY <2>3, Zenon DEF NamespacePart, Comma, a
  <2>5. a \in SocketFrames /\ Len(a) = 3 /\ a[1] = "/" /\ a[2] = "n" /\ a[3] = Comma
    BY <2>1, <2>2 DEF SocketFrames
  <2>. QED BY <2>4, <2>5
<1>6. p.attachments = <<>> => CountPart(p) = <<>>
  BY DEF CountPart
<1>7. p.namespace = <<>> => NamespacePart(p) = <<>>
  BY Zenon DEF NamespacePart
<1>. QED BY <1>1, <1>3, <1>4, <1>5, <1>6, <1>7

\* Where the five parts of a frame stand in it.
StandIn(f, h, c, n, k, q) ==
  /\ f \in SocketFrames /\ Len(f) = Len(h) + Len(c) + Len(n) + Len(k) + Len(q)
  /\ \A x \in 1 .. Len(h) : f[x] = h[x]
  /\ \A x \in 1 .. Len(c) : f[Len(h) + x] = c[x]
  /\ \A x \in 1 .. Len(n) : f[Len(h) + Len(c) + x] = n[x]
  /\ \A x \in 1 .. Len(k) : f[Len(h) + Len(c) + Len(n) + x] = k[x]
  /\ \A x \in 1 .. Len(q) : f[Len(h) + Len(c) + Len(n) + Len(k) + x] = q[x]

\* The parts of a frame stand one after the other.
LEMMA PacketPlaces ==
  ASSUME NEW h \in SocketFrames, NEW c \in SocketFrames, NEW n \in SocketFrames,
         NEW k \in SocketFrames, NEW q \in SocketFrames
  PROVE  StandIn(FrameOf(h, c, n, k, q), h, c, n, k, q)
<1> DEFINE s1 == Join(h, c)
           s2 == Join(s1, n)
           s3 == Join(s2, k)
           s4 == Join(s3, q)
<1>1. Len(h) \in Nat /\ Len(c) \in Nat /\ Len(n) \in Nat /\ Len(k) \in Nat /\ Len(q) \in Nat
  BY LenProperties DEF SocketFrames
<1>2. /\ s1 \in SocketFrames /\ Len(s1) = Len(h) + Len(c)
      /\ \A x \in 1 .. Len(h) : s1[x] = h[x]
      /\ \A x \in 1 .. Len(c) : s1[Len(h) + x] = c[x]
  BY TextsJoin
<1> HIDE DEF s1
<1>3. /\ s2 \in SocketFrames /\ Len(s2) = Len(s1) + Len(n)
      /\ \A x \in 1 .. Len(s1) : s2[x] = s1[x]
      /\ \A x \in 1 .. Len(n) : s2[Len(s1) + x] = n[x]
  BY <1>2, TextsJoin
<1> HIDE DEF s2
<1>4. /\ s3 \in SocketFrames /\ Len(s3) = Len(s2) + Len(k)
      /\ \A x \in 1 .. Len(s2) : s3[x] = s2[x]
      /\ \A x \in 1 .. Len(k) : s3[Len(s2) + x] = k[x]
  BY <1>3, TextsJoin
<1> HIDE DEF s3
<1>5. /\ s4 \in SocketFrames /\ Len(s4) = Len(s3) + Len(q)
      /\ \A x \in 1 .. Len(s3) : s4[x] = s3[x]
      /\ \A x \in 1 .. Len(q) : s4[Len(s3) + x] = q[x]
  BY <1>4, TextsJoin
<1> HIDE DEF s4
<1>6. /\ Len(s2) = Len(h) + Len(c) + Len(n) /\ Len(s3) = Len(h) + Len(c) + Len(n) + Len(k)
      /\ Len(s4) = Len(h) + Len(c) + Len(n) + Len(k) + Len(q)
  BY <1>1, <1>2, <1>3, <1>4, <1>5
<1>7. ASSUME NEW x \in 1 .. Len(h) PROVE s4[x] = h[x]
  <2>1. x \in 1 .. Len(s1) /\ x \in 1 .. Len(s2) /\ x \in 1 .. Len(s3)
    BY <1>1, <1>2, <1>6
  <2>. QED BY <1>2, <1>3, <1>4, <1>5, <2>1
<1>8. ASSUME NEW x \in 1 .. Len(c) PROVE s4[Len(h) + x] = c[x]
  <2> DEFINE y == Len(h) + x
  <2>1. y \in 1 .. Len(s1) /\ y \in 1 .. Len(s2) /\ y \in 1 .. Len(s3)
    BY <1>1, <1>2, <1>6
  <2>2. s1[y] = c[x]
    BY <1>2
  <2> HIDE DEF y
  <2>3. s4[y] = c[x]
    BY <1>3, <1>4, <1>5, <2>1, <2>2
  <2>. QED BY <2>3 DEF y
<1>9. ASSUME NEW x \in 1 .. Len(n) PROVE s4[Len(h) + Len(c) + x] = n[x]
  <2> DEFINE y == Len(h) + Len(c) + x
  <2>1. y \in 1 .. Len(s2) /\ y \in 1 .. Len(s3)
    BY <1>1, <1>6
  <2>2. s2[y] = n[x]
    BY <1>2, <1>3
  <2> HIDE DEF y
  <2>3. s4[y] = n[x]
    BY <1>4, <1>5, <2>1, <2>2
  <2>. QED BY <2>3 DEF y
<1>10. ASSUME NEW x \in 1 .. Len(k) PROVE s4[Len(h) + Len(c) + Len(n) + x] = k[x]
  <2> DEFINE y == Len(h) + Len(c) + Len(n) + x
  <2>1. y \in 1 .. Len(s3)
    BY <1>1, <1>6
  <2>2. s3[y] = k[x]
    BY <1>4, <1>6
  <2> HIDE DEF y
  <2>3. s4[y] = k[x]
    BY <1>5, <2>1, <2>2
  <2>. QED BY <2>3 DEF y
<1>11. \A x \in 1 .. Len(q) : s4[Len(h) + Len(c) + Len(n) + Len(k) + x] = q[x]
  BY <1>5, <1>6
<1>12. StandIn(s4, h, c, n, k, q)
  BY <1>5, <1>6, <1>7, <1>8, <1>9, <1>10, <1>11 DEF StandIn
<1>. QED BY <1>12 DEF s4, s3, s2, s1, FrameOf

\* A frame decodes to the packet it was made of.
LEMMA PacketIsRead ==
  ASSUME NEW p \in Packets, LegalPacket(p)
  PROVE  DecodeSocketIoPacket(Encode(p)) = p
<1> DEFINE h == <<"4", p.type>>
           c == CountPart(p)
           n == NamespacePart(p)
           k == p.ackId
           q == p.payload
           text == Encode(p)
           one == <<"1">>
           ns == <<"/", "n">>
           ack == <<"1", "7">>
           body == <<"J">>
           i == 3 + Len(c)
           j == i + Len(n)
           m == j + Len(k)
<1>1. text = FrameOf(h, c, n, k, q)
  BY Zenon DEF Encode, CountPart, NamespacePart, FrameOf, Join
<1>2. /\ "1" \in FrameCharacters /\ "7" \in FrameCharacters /\ "J" \in FrameCharacters
      /\ "/" \in FrameCharacters /\ "n" \in FrameCharacters
  BY Zenon DEF FrameCharacters
<1>3. /\ one \in SocketFrames /\ Len(one) = 1 /\ one[1] = "1" /\ one # <<>>
      /\ ack \in SocketFrames /\ Len(ack) = 2 /\ ack[1] = "1" /\ ack[2] = "7"
      /\ body \in SocketFrames /\ Len(body) = 1 /\ body[1] = "J"
      /\ ns # <<>> /\ Len(ns) = 2 /\ <<>> \in SocketFrames /\ Len(<<>>) = 0
  BY <1>2 DEF SocketFrames
<1>4. /\ h \in SocketFrames /\ Len(h) = 2 /\ h[2] = p.type
  BY PacketParts
<1>5. \/ p.attachments = <<>> /\ c = <<>> /\ p.type # "5"
      \/ /\ p.attachments = one /\ p.type = "5" /\ c \in SocketFrames /\ Len(c) = 2
         /\ c[1] = "1" /\ c[2] = "-"
  BY PacketParts, <1>3 DEF LegalPacket
<1>6. \/ p.namespace = <<>> /\ n = <<>>
      \/ /\ p.namespace = ns /\ n \in SocketFrames /\ Len(n) = 3
         /\ n[1] = "/" /\ n[2] = "n" /\ n[3] = Comma
  BY PacketParts
<1>7. (k = <<>> \/ k = ack) /\ (q = <<>> \/ q = body)
  BY PacketParts
<1>8. p = [type |-> p.type, attachments |-> p.attachments, namespace |-> p.namespace,
           ackId |-> k, payload |-> q]
  BY PacketParts
<1> HIDE DEF h, c, n, k, q, text, one, ns, ack, body
<1>9. c \in SocketFrames /\ n \in SocketFrames /\ k \in SocketFrames /\ q \in SocketFrames
  BY <1>3, <1>5, <1>6, <1>7
<1>10. Len(c) \in {0, 2} /\ Len(n) \in {0, 3} /\ Len(k) \in {0, 2} /\ Len(q) \in {0, 1}
  BY <1>3, <1>5, <1>6, <1>7
<1>11. /\ text \in SocketFrames /\ Len(text) = 2 + Len(c) + Len(n) + Len(k) + Len(q)
       /\ text[2] = p.type
       /\ \A x \in 1 .. Len(c) : text[2 + x] = c[x]
       /\ \A x \in 1 .. Len(n) : text[2 + Len(c) + x] = n[x]
       /\ \A x \in 1 .. Len(k) : text[2 + Len(c) + Len(n) + x] = k[x]
       /\ \A x \in 1 .. Len(q) : text[2 + Len(c) + Len(n) + Len(k) + x] = q[x]
  <2>1. 2 \in 1 .. 2
    OBVIOUS
  <2>2. h \in SocketFrames /\ c \in SocketFrames /\ n \in SocketFrames /\ k \in SocketFrames /\ q \in SocketFrames
    BY <1>4, <1>9
  <2>3. StandIn(FrameOf(h, c, n, k, q), h, c, n, k, q)
    BY <2>2, PacketPlaces
  <2>4. StandIn(text, h, c, n, k, q)
    BY <1>1, <2>3
  <2>5. text[2] = h[2]
    BY <1>4, <2>1, <2>4 DEF StandIn
  <2>. QED BY <1>4, <2>4, <2>5 DEF StandIn
<1>12. "1" \in Digits /\ "7" \in Digits /\ "J" \notin Digits /\ "-" \notin Digits
  BY Zenon DEF Digits
<1>13. /\ i \in Nat \ {0} /\ j \in Nat \ {0} /\ m \in Nat \ {0}
       /\ m + Len(q) - 1 = Len(text) /\ m - 1 <= Len(text) /\ Len(text) \in Nat
  BY <1>10, <1>11
<1>14. /\ \A x \in 1 .. Len(n) : text[i + x - 1] = n[x]
       /\ \A x \in 1 .. Len(k) : text[j + x - 1] = k[x]
       /\ \A x \in 1 .. Len(q) : text[m + x - 1] = q[x]
  <2>1. \A x \in Nat : /\ i + x - 1 = 2 + Len(c) + x
                       /\ j + x - 1 = 2 + Len(c) + Len(n) + x
                       /\ m + x - 1 = 2 + Len(c) + Len(n) + Len(k) + x
    BY <1>10
  <2>2. /\ \A x \in 1 .. Len(n) : x \in Nat
        /\ \A x \in 1 .. Len(k) : x \in Nat
        /\ \A x \in 1 .. Len(q) : x \in Nat
    OBVIOUS
  <2> HIDE DEF i, j, m
  <2>. QED BY <1>11, <2>1, <2>2
<1>15. m <= Len(text) => q = body /\ text[m] = "J"
  <2>1. SUFFICES ASSUME m <= Len(text) PROVE q = body /\ text[m] = "J"
    OBVIOUS
  <2>2. Len(q) = 1 /\ q = body
    BY <1>3, <1>7, <1>10, <1>13, <2>1
  <2>3. 1 \in 1 .. Len(q) /\ m + 1 - 1 = m
    BY <1>13, <2>2
  <2>. QED BY <1>3, <1>14, <2>2, <2>3
<1>16. k = ack => text[j] = "1"
  <2>1. SUFFICES ASSUME k = ack PROVE text[j] = "1"
    OBVIOUS
  <2>2. 1 \in 1 .. Len(k) /\ j + 1 - 1 = j
    BY <1>3, <1>13, <2>1
  <2>. QED BY <1>3, <1>14, <2>1, <2>2
<1>17. ReadDigits(text, j) = k
  <2>1. j + Len(k) = m /\ j + Len(k) - 1 <= Len(text)
    BY <1>10, <1>13
  <2>2. \A x \in 1 .. Len(k) : k[x] \in Digits
    <3>1. CASE k = ack
      <4>0. Len(k) = 2
        BY <1>3, <3>1
      <4>1. \A x \in 1 .. Len(k) : x = 1 \/ x = 2
        BY <4>0
      <4>. QED BY <1>3, <1>12, <3>1, <4>1
    <3>2. CASE k = <<>>
      BY <1>3, <3>2
    <3>. QED BY <1>7, <3>1, <3>2
  <2>3. m <= Len(text) => text[m] \notin Digits
    BY <1>12, <1>15
  <2> HIDE DEF i, j, m
  <2>4. \A x \in 1 .. Len(k) : text[j + x - 1] = k[x] /\ k[x] \in Digits
    BY <1>14, <2>2
  <2>5. j + Len(k) <= Len(text) => text[j + Len(k)] \notin Digits
    BY <2>1, <2>3
  <2>6. text \in SocketFrames /\ k \in SocketFrames /\ j \in Nat \ {0}
    BY <1>9, <1>11, <1>13
  <2>. QED BY <2>1, <2>4, <2>5, <2>6, DigitsRead
<1>18. Namespace(text, i) = p.namespace
  <2>1. CASE p.namespace = <<>> /\ n = <<>>
    <3>1. j = i
      BY <1>3, <1>13, <2>1
    <3>2. i <= Len(text) => text[i] # "/"
      <4>1. CASE k = ack
        BY <1>16, <3>1, <4>1
      <4>2. CASE k = <<>>
        <5>1. m = j
          BY <1>3, <1>13, <4>2
        <5>. QED BY <1>15, <3>1, <5>1
      <4>. QED BY <1>7, <4>1, <4>2
    <3>3. Namespace(text, i) = <<>>
      <4>1. i > Len(text) \/ text[i] # "/"
        BY <1>13, <3>2
      <4> HIDE DEF i
      <4>. QED BY <4>1, Zenon DEF Namespace
    <3>. QED BY <2>1, <3>3
  <2>2. CASE /\ p.namespace = ns /\ n \in SocketFrames /\ Len(n) = 3
             /\ n[1] = "/" /\ n[2] = "n" /\ n[3] = Comma
    <3>1. i + 2 <= Len(text)
      BY <1>10, <1>11, <2>2
    <3>2. /\ 1 \in 1 .. Len(n) /\ 2 \in 1 .. Len(n) /\ 3 \in 1 .. Len(n)
          /\ i + 1 - 1 = i /\ i + 2 - 1 = i + 1 /\ i + 3 - 1 = i + 2
      BY <1>13, <2>2
    <3> HIDE DEF i, j, m
    <3>3. text[i] = "/" /\ text[i + 1] = "n" /\ text[i + 2] = Comma
      BY <1>14, <2>2, <3>2
    <3>4. Namespace(text, i) = <<"/", "n">>
      BY <1>11, <1>13, <3>1, <3>3, NamespaceRead
    <3>. QED BY <2>2, <3>4 DEF ns
  <2>. QED BY <1>6, <2>1, <2>2
<1>19. Attachments(text) = p.attachments
  <2> DEFINE tally == ReadDigits(text, 3)
             dash == 3 + Len(tally)
  <2>1. Attachments(text) =
          IF text[2] = "5" /\ tally # <<>> /\ dash <= Len(text) /\ text[dash] = "-" THEN tally ELSE <<>>
    BY DEF Attachments
  <2> HIDE DEF tally
  <2>2. CASE p.attachments = <<>> /\ p.type # "5"
    BY <1>11, <2>1, <2>2
  <2>3. CASE /\ p.attachments = one /\ p.type = "5" /\ c \in SocketFrames /\ Len(c) = 2
             /\ c[1] = "1" /\ c[2] = "-"
    <3>1. text[3] = "1" /\ text[4] = "-"
      <4>1. 1 \in 1 .. Len(c) /\ 2 \in 1 .. Len(c) /\ 2 + 1 = 3 /\ 2 + 2 = 4
        BY <2>3
      <4>. QED BY <1>11, <2>3, <4>1
    <3>2. 4 <= Len(text)
      BY <1>10, <1>11, <2>3
    <3>3. tally = one
      <4> DEFINE three == 3
      <4>1. three \in Nat \ {0} /\ three + Len(one) - 1 <= Len(text) /\ three + Len(one) = 4
        BY <1>3, <1>13, <3>2
      <4>2. ASSUME NEW x \in 1 .. Len(one) PROVE text[three + x - 1] = one[x] /\ one[x] \in Digits
        <5>1. x = 1 /\ three + x - 1 = 3
          BY <1>3
        <5>. QED BY <1>3, <1>12, <3>1, <5>1
      <4>3. text[three + Len(one)] \notin Digits
        BY <1>12, <3>1, <4>1
      <4>4. ReadDigits(text, three) = one
        <5> HIDE DEF three
        <5>1. text \in SocketFrames /\ one \in SocketFrames
          BY <1>3, <1>11
        <5>. QED BY <4>1, <4>2, <4>3, <5>1, DigitsRead
      <4>. QED BY <4>4 DEF tally
    <3>4. dash = 4
      <4>1. Len(tally) = 1
        BY <1>3, <3>3
      <4>. QED BY <4>1
    <3>. QED BY <1>3, <1>11, <2>1, <2>3, <3>1, <3>2, <3>3, <3>4
  <2>. QED BY <1>5, <2>2, <2>3
<1>20. SubSeq(text, m, Len(text)) = q
  <2> HIDE DEF i, j, m
  <2>1. m + Len(q) - 1 <= Len(text)
    BY <1>13
  <2>2. SubSeq(text, m, m + Len(q) - 1) = q
    BY <1>9, <1>11, <1>13, <1>14, <2>1, PieceAt
  <2>. QED BY <1>13, <2>2
<1>21. (IF p.attachments = <<>> THEN 3 ELSE 4 + Len(p.attachments)) = i
  <2>1. CASE p.attachments = <<>> /\ c = <<>>
    BY <1>3, <2>1
  <2>2. CASE p.attachments = one /\ Len(c) = 2
    <3>1. p.attachments # <<>> /\ Len(p.attachments) = 1
      BY <1>3, <2>2
    <3>2. 4 + Len(p.attachments) = i
      BY <2>2, <3>1
    <3>. QED BY <3>1, <3>2
  <2>. QED BY <1>5, <2>1, <2>2
<1>22. (IF p.namespace = <<>> THEN i ELSE i + Len(p.namespace) + 1) = j
  <2>1. CASE p.namespace = <<>> /\ n = <<>>
    BY <1>3, <1>13, <2>1
  <2>2. CASE p.namespace = ns /\ Len(n) = 3
    <3>1. p.namespace # <<>> /\ Len(p.namespace) = 2
      BY <1>3, <2>2
    <3>2. i + Len(p.namespace) + 1 = j
      BY <1>13, <2>2, <3>1
    <3> HIDE DEF i, j
    <3>. QED BY <3>1, <3>2
  <2>. QED BY <1>6, <2>1, <2>2
<1>23. DecodeSocketIoPacket(text) =
         [type |-> text[2], attachments |-> p.attachments, namespace |-> p.namespace,
          ackId |-> k, payload |-> SubSeq(text, m, Len(text))]
  <2> DEFINE first == IF p.attachments = <<>> THEN 3 ELSE 4 + Len(p.attachments)
             after == IF p.namespace = <<>> THEN first ELSE first + Len(p.namespace) + 1
  <2>1. first = i /\ after = j
    BY <1>21, <1>22
  <2> HIDE DEF i, j
  <2>2. Namespace(text, first) = p.namespace /\ ReadDigits(text, after) = k
    BY <1>17, <1>18, <2>1
  <2>3. DecodeSocketIoPacket(text) =
          [type |-> text[2], attachments |-> p.attachments, namespace |-> p.namespace,
           ackId |-> k, payload |-> SubSeq(text, after + Len(k), Len(text))]
    BY <1>19, <2>2 DEF DecodeSocketIoPacket
  <2>. QED BY <2>1, <2>3
<1>24. DecodeSocketIoPacket(text) = p
  BY <1>8, <1>11, <1>20, <1>23
<1>. QED BY <1>24 DEF text

\* The capture, whatever is decoded from it.
CaptureInv == wireKind \in {"sse", "protobuf", "preview", "packet"} /\ wireTokens \in Seq(Tokens(wireKind))

\* The capture is made of its stream's tokens.
LEMMA CaptureInvHolds == CaptureSpec => []CaptureInv
<1>1. CaptureInit => CaptureInv
  BY EmptySeq DEF CaptureInit, CaptureInv
<1>2. CaptureInv /\ [CaptureNext]_captureVars => CaptureInv'
  <2> SUFFICES ASSUME CaptureInv, [CaptureNext]_captureVars PROVE CaptureInv'
    OBVIOUS
  <2>1. CASE Capture
    <3>1. PICK t \in Tokens(wireKind) : wireTokens' = Append(wireTokens, t)
      BY <2>1 DEF Capture
    <3>2. Append(wireTokens, t) \in Seq(Tokens(wireKind))
      BY AppendProperties DEF CaptureInv
    <3>. QED BY <2>1, <3>1, <3>2 DEF Capture, CaptureInv
  <2>2. CASE UNCHANGED captureVars
    BY <2>2 DEF CaptureInv, captureVars
  <2>. QED BY <2>1, <2>2 DEF CaptureNext
<1>. QED BY <1>1, <1>2, PTL DEF CaptureSpec

\* Of a capture of any length, for any nesting, varint and preview bounds, a decoder shows what it shows of the whole stream first, whichever way lines end; a cut text is shown; a frame decodes to its packet.
THEOREM CutCapturesAreRead == CaptureSpec => []CutCapturesTellNoLies
<1>1. CaptureInv => CutCapturesTellNoLies
  <2> SUFFICES ASSUME CaptureInv PROVE CutCapturesTellNoLies
    OBVIOUS
  <2>1. ASSUME wireKind = "sse"
        PROVE  /\ ParseSse(wireTokens).events = ParseSse(Unix(wireTokens)).events
               /\ wireTokens # <<>> => IsPrefix(ParseSse(Front(wireTokens)).events, ParseSse(wireTokens).events)
    <3>1. wireTokens \in Seq(SseTokens)
      BY <2>1 DEF CaptureInv, Tokens
    <3>2. wireTokens \in SseBodies
      BY <3>1 DEF SseBodies
    <3>3. ParseSse(wireTokens).events = ParseSse(Unix(wireTokens)).events
      BY <3>2, LineEndsAreOne
    <3>4. wireTokens # <<>> => IsPrefix(ParseSse(Front(wireTokens)).events, ParseSse(wireTokens).events)
      BY <3>2, CutStreamIsRead
    <3>. QED BY <3>3, <3>4
  <2>2. ASSUME wireKind = "protobuf"
        PROVE  /\ wireTokens # <<>> => IsPrefix(DecodeProtobuf(Front(wireTokens)).fields, DecodeProtobuf(wireTokens).fields)
               /\ \A i \in DOMAIN DecodeProtobuf(wireTokens).fields :
                    DecodeProtobuf(wireTokens).fields[i].next <= Len(wireTokens) + 1
    <3>1. wireTokens \in Seq(WireBytes)
      BY <2>2 DEF CaptureInv, Tokens
    <3>. QED BY <3>1, CutMessageIsRead DEF Wires
  <2>3. ASSUME wireKind = "preview", Decodes(wireTokens), wireTokens # <<>>
        PROVE  ~PreviewBytes(wireTokens).base64 /\ IsPrefix(PreviewBytes(wireTokens).preview, wireTokens)
    <3>1. wireTokens \in Runes
      BY <2>3 DEF CaptureInv, Tokens, Runes
    <3>. QED BY <2>3, <3>1, CutTextIsShown
  <2>4. \A p \in Packets : LegalPacket(p) => DecodeSocketIoPacket(Encode(p)) = p
    BY PacketIsRead
  <2>. QED BY <2>1, <2>2, <2>3, <2>4, Zenon DEF CutCapturesTellNoLies
<1>. QED BY <1>1, CaptureInvHolds, PTL

\* What is kept of a stream is its head, and what is decoded from a head is the head of what the whole shows (the part of GrpcFrames and the part of Captures together).
THEOREM CapturesRight == CaptureSpec /\ FramesSpec => []CapturesTellNoLies
<1>1. CutCapturesTellNoLies /\ FramesAreTheWire => CapturesTellNoLies
  BY DEF CapturesTellNoLies
<1>. QED BY <1>1, CutCapturesAreRead, FramesRight, PTL

-----------------------------------------------------------------------------
(***************************************************************************)
(* Workflows, first the CSV reader.  A text Stands somewhere in the file   *)
(* when its characters do; the turns of the loop are those of Turns, and   *)
(* each lemma says from which turn's state the reader comes to which.      *)
(***************************************************************************)
\* A character is one of the four the reader looks for, or another.
Characters == {"q", "c", "n", "r", "x"}
FileTexts == Seq(Characters)

Reading(spot, rowsRead, fields, field, quoted, saw) ==
  [at |-> spot, records |-> rowsRead, fields |-> fields, field |-> field, quoted |-> quoted, saw |-> saw]

Readers == [at : Nat \ {0}, records : Seq(Seq(FileTexts)), fields : Seq(FileTexts), field : FileTexts,
            quoted : BOOLEAN, saw : BOOLEAN]

Turns(text) == CHOOSE turns : turns = [n \in Nat |-> IF n = 0 THEN CsvStart ELSE CsvTurn(text, turns[n - 1])]

Stands(text, k, s) == k + Len(s) <= Len(text) /\ \A j \in 1 .. Len(s) : text[k + j] = s[j]

\* A field as pushField takes it.
Bare(f) == IF f # <<>> /\ Last(f) = "r" THEN Front(f) ELSE f

\* It is a text still.
LEMMA BareIsText == ASSUME NEW f \in FileTexts PROVE Bare(f) \in FileTexts
<1>1. CASE f # <<>> /\ Last(f) = "r"
  <2>1. Len(f) \in Nat /\ \A i \in 1 .. Len(f) - 1 : f[i] \in Characters
    BY LenProperties, ElementOfSeq DEF FileTexts
  <2>2. SubSeq(f, 1, Len(f) - 1) \in Seq(Characters)
    BY <2>1, SubSeqProperties
  <2>. QED BY <1>1, <2>2 DEF Bare, Front, FileTexts
<1>2. CASE ~(f # <<>> /\ Last(f) = "r")
  BY <1>2 DEF Bare
<1>. QED BY <1>1, <1>2

\* What a turn makes of a state, by the character it stands at.
Turned(text, spot, rowsRead, fields, field, quoted, saw) ==
  LET after == CsvTurn(text, Reading(spot, rowsRead, fields, field, quoted, saw))
      ch == text[spot]
      doubled == spot < Len(text) /\ text[spot + 1] = "q"
  IN /\ quoted /\ ch # "q" => after = Reading(spot + 1, rowsRead, fields, Append(field, ch), TRUE, saw)
     /\ quoted /\ ch = "q" /\ doubled => after = Reading(spot + 2, rowsRead, fields, Append(field, "q"), TRUE, saw)
     /\ quoted /\ ch = "q" /\ ~doubled => after = Reading(spot + 1, rowsRead, fields, field, FALSE, saw)
     /\ ~quoted /\ ch = "q" => after = Reading(spot + 1, rowsRead, fields, field, TRUE, TRUE)
     /\ ~quoted /\ ch = "c" => after = Reading(spot + 1, rowsRead, Append(fields, Bare(field)), <<>>, FALSE, TRUE)
     /\ ~quoted /\ ch = "n" =>
          after = Reading(spot + 1, Append(rowsRead, Append(fields, Bare(field))), <<>>, <<>>, FALSE, FALSE)
     /\ ~quoted /\ ch \notin {"q", "c", "n"} =>
          after = Reading(spot + 1, rowsRead, fields, Append(field, ch), FALSE, TRUE)

\* It does, of any state in the text.
LEMMA TurnBy ==
  ASSUME NEW text \in FileTexts, NEW spot \in Nat \ {0}, spot <= Len(text), NEW rowsRead, NEW fields, NEW field,
         NEW quoted \in BOOLEAN, NEW saw
  PROVE  Turned(text, spot, rowsRead, fields, field, quoted, saw)
<1> DEFINE st == Reading(spot, rowsRead, fields, field, quoted, saw)
           ch == text[spot]
<1>1. Len(text) \in Nat /\ ~(st.at > Len(text))
  BY LenProperties DEF FileTexts, Reading
<1>2. CASE quoted
  <2>1. st.quoted
    BY <1>2 DEF Reading
  <2>. QED BY <1>1, <1>2, <2>1 DEF CsvTurn, Reading, Turned
<1>3. CASE ~quoted
  <2>1. ~st.quoted
    BY <1>3 DEF Reading
  <2>2. CASE ch = "q"
    BY <1>1, <1>3, <2>1, <2>2 DEF CsvTurn, Reading, Turned
  <2>3. CASE ch = "c"
    BY <1>1, <1>3, <2>1, <2>3 DEF CsvTurn, Reading, Turned, PushField, Bare
  <2>4. CASE ch = "n"
    BY <1>1, <1>3, <2>1, <2>4 DEF CsvTurn, Reading, Turned, PushField, PushRecord, Bare
  <2>5. CASE ch \notin {"q", "c", "n"}
    BY <1>1, <1>3, <2>1, <2>5 DEF CsvTurn, Reading, Turned
  <2>. QED BY <2>2, <2>3, <2>4, <2>5
<1>. QED BY <1>2, <1>3

\* A turn leads from a reader to a reader, which is further on unless the text is over.
LEMMA TurnReads ==
  ASSUME NEW text \in FileTexts, NEW st \in Readers
  PROVE  /\ CsvTurn(text, st) \in Readers
         /\ st.at > Len(text) => CsvTurn(text, st) = st
         /\ st.at <= Len(text) => CsvTurn(text, st).at > st.at
<1>1. Len(text) \in Nat /\ st.at \in Nat \ {0}
  BY LenProperties DEF FileTexts, Readers
<1>2. CASE st.at > Len(text)
  BY <1>1, <1>2 DEF CsvTurn
<1>3. CASE st.at <= Len(text)
  <2> DEFINE spot == st.at  rowsRead == st.records  fields == st.fields  field == st.field
             quoted == st.quoted  saw == st.saw  ch == text[st.at]
  <2>1. /\ spot \in Nat \ {0} /\ spot <= Len(text) /\ rowsRead \in Seq(Seq(FileTexts)) /\ fields \in Seq(FileTexts)
        /\ field \in FileTexts /\ quoted \in BOOLEAN /\ saw \in BOOLEAN
        /\ st = Reading(spot, rowsRead, fields, field, quoted, saw)
    BY <1>3 DEF Readers, Reading
  <2>2. ch \in Characters
    BY <1>1, <1>3, ElementOfSeq DEF FileTexts
  <2>3. /\ Append(field, ch) \in FileTexts /\ Append(field, "q") \in FileTexts /\ Bare(field) \in FileTexts
        /\ <<>> \in FileTexts /\ <<>> \in Seq(FileTexts)
    <3>1. Append(field, ch) \in FileTexts
      BY <2>1, <2>2, AppendProperties DEF FileTexts
    <3>2. Append(field, "q") \in FileTexts
      <4>1. "q" \in Characters
        BY DEF Characters
      <4>. QED BY <2>1, <4>1, AppendProperties DEF FileTexts
    <3>3. <<>> \in FileTexts
      BY EmptySeq DEF FileTexts
    <3>4. <<>> \in Seq(FileTexts)
      BY EmptySeq
    <3>. QED BY <2>1, <3>1, <3>2, <3>3, <3>4, BareIsText
  <2>4. Append(fields, Bare(field)) \in Seq(FileTexts)
    BY <2>1, <2>3, AppendProperties
  <2>5. Append(rowsRead, Append(fields, Bare(field))) \in Seq(Seq(FileTexts))
    BY <2>1, <2>4, AppendProperties
  <2> HIDE DEF spot, rowsRead, fields, field, quoted, saw, ch
  <2>6. \E a \in {spot + 1, spot + 2}, r \in Seq(Seq(FileTexts)), fs \in Seq(FileTexts), f \in FileTexts, q, s \in BOOLEAN :
          CsvTurn(text, st) = Reading(a, r, fs, f, q, s)
    <3> DEFINE ahead == spot < Len(text) /\ text[spot + 1] = "q"
    <3>1. Turned(text, spot, rowsRead, fields, field, quoted, saw)
      BY <2>1, TurnBy
    <3>4. text[spot] = ch
      BY DEF ch, spot
    <3>2. CASE quoted
      <4>1. CASE text[spot] # "q"
        BY <2>1, <2>3, <3>1, <3>2, <3>4, <4>1 DEF Turned
      <4>2. CASE text[spot] = "q" /\ ahead
        BY <2>1, <2>3, <3>1, <3>2, <4>2 DEF Turned
      <4>3. CASE text[spot] = "q" /\ ~ahead
        BY <2>1, <2>3, <3>1, <3>2, <4>3 DEF Turned
      <4>. QED BY <4>1, <4>2, <4>3
    <3>3. CASE ~quoted
      BY <2>1, <2>3, <2>4, <2>5, <3>1, <3>3, <3>4 DEF Turned
    <3>. QED BY <3>2, <3>3
  <2>. QED BY <1>1, <1>3, <2>1, <2>6 DEF Readers, Reading, spot
<1>. QED BY <1>1, <1>2, <1>3

\* The turns follow one another.
LEMMA TurnsFollow ==
  ASSUME NEW text \in FileTexts
  PROVE  /\ Turns(text) \in [Nat -> Readers]
         /\ Turns(text)[0] = CsvStart
         /\ \A n \in Nat : Turns(text)[n + 1] = CsvTurn(text, Turns(text)[n])
<1> DEFINE g == [st \in Readers |-> CsvTurn(text, st)]
<1>1. CsvStart \in Readers
  <2>1. <<>> \in FileTexts /\ <<>> \in Seq(FileTexts) /\ <<>> \in Seq(Seq(FileTexts))
    BY EmptySeq DEF FileTexts
  <2>. QED BY <2>1 DEF CsvStart, Readers
<1>2. g \in [Readers -> Readers]
  BY TurnReads
<1>3. PICK f \in [Nat -> Readers] : f = [n \in Nat |-> IF n = 0 THEN CsvStart ELSE g[f[n - 1]]]
  <2> HIDE DEF g
  <2>. QED BY <1>1, <1>2, Recursion
<1>4. f = [n \in Nat |-> IF n = 0 THEN CsvStart ELSE CsvTurn(text, f[n - 1])]
  <2>1. ASSUME NEW n \in Nat, n # 0 PROVE g[f[n - 1]] = CsvTurn(text, f[n - 1])
    <3>1. n - 1 \in Nat
      BY <2>1
    <3>2. f[n - 1] \in Readers
      BY <3>1
    <3>. QED BY <3>2
  <2>. QED BY <1>3, <2>1
<1> DEFINE turns == Turns(text)
<1>5. turns = [n \in Nat |-> IF n = 0 THEN CsvStart ELSE CsvTurn(text, turns[n - 1])]
  BY <1>4 DEF Turns
<1> HIDE DEF g, turns
<1>7. turns[0] = CsvStart /\ \A n \in Nat : turns[n + 1] = CsvTurn(text, turns[n])
  <2>1. turns[0] = CsvStart
    BY <1>5
  <2>2. ASSUME NEW n \in Nat PROVE turns[n + 1] = CsvTurn(text, turns[n])
    <3>1. n + 1 \in Nat /\ n + 1 # 0 /\ (n + 1) - 1 = n
      OBVIOUS
    <3>2. turns[n + 1] = CsvTurn(text, turns[(n + 1) - 1])
      BY <1>5, <3>1
    <3>. QED BY <3>1, <3>2
  <2>. QED BY <2>1, <2>2
<1>8. \A n \in Nat : turns[n] \in Readers
  <2> DEFINE P == {n \in Nat : turns[n] \in Readers}
  <2>1. 0 \in P
    BY <1>1, <1>7
  <2>2. ASSUME NEW n \in P PROVE n + 1 \in P
    BY <1>7, TurnReads
  <2>3. P = Nat
    <3>1. P \subseteq Nat
      OBVIOUS
    <3> HIDE DEF P
    <3>. QED BY <2>1, <2>2, <3>1, Induction
  <2>. QED BY <2>3
<1>9. turns \in [Nat -> Readers]
  BY <1>5, <1>8
<1>. QED BY <1>7, <1>9 DEF turns

\* What the last of them leaves is what the file is read as.
LEMMA TokenizedByTurns ==
  ASSUME NEW text, NEW rowsRead, Turns(text)[Len(text)].records = rowsRead,
         ~Turns(text)[Len(text)].saw, Turns(text)[Len(text)].field = <<>>
  PROVE  TokenizeCsv(text) = rowsRead
BY DEF TokenizeCsv, Turns

\* Where a reader that is past the text stands, every later turn leaves it, and so
\* does the last.
LEMMA ReadToTheEnd ==
  ASSUME NEW text \in FileTexts, NEW m \in Nat, Turns(text)[m].at > Len(text)
  PROVE  Turns(text)[Len(text)] = Turns(text)[m]
<1> DEFINE f == Turns(text)
           len == Len(text)
<1>1. len \in Nat
  BY LenProperties DEF FileTexts
<1>2. /\ f \in [Nat -> Readers] /\ \A n \in Nat : f[n + 1] = CsvTurn(text, f[n])
  BY TurnsFollow
<1>3. \A n \in Nat : f[n].at \in Nat \ {0}
  BY <1>2 DEF Readers
<1> HIDE DEF f
<1>4. ASSUME NEW a \in Nat, f[a].at > len
      PROVE  \A d \in Nat : f[a + d] = f[a]
  <2> DEFINE P == {d \in Nat : f[a + d] = f[a]}
  <2>1. 0 \in P
    OBVIOUS
  <2>2. ASSUME NEW d \in P PROVE d + 1 \in P
    <3>1. a + d \in Nat /\ (a + d) + 1 = a + (d + 1) /\ f[a + d] = f[a]
      OBVIOUS
    <3>2. f[a + d] \in Readers /\ f[(a + d) + 1] = CsvTurn(text, f[a + d])
      BY <1>2, <3>1
    <3>3. CsvTurn(text, f[a + d]) = f[a + d]
      BY <1>4, <3>1, <3>2, TurnReads
    <3>. QED BY <3>1, <3>2, <3>3
  <2>3. P = Nat
    <3>1. P \subseteq Nat
      OBVIOUS
    <3> HIDE DEF P
    <3>. QED BY <2>1, <2>2, <3>1, Induction
  <2>. QED BY <2>3
<1>5. f[len].at > len
  <2> DEFINE P == {n \in Nat : n <= len => f[n].at > n}
  <2>1. 0 \in P
    BY <1>3
  <2>2. ASSUME NEW n \in P PROVE n + 1 \in P
    <3>1. SUFFICES ASSUME n + 1 <= len PROVE f[n + 1].at > n + 1
      OBVIOUS
    <3>2. n \in Nat /\ n <= len /\ f[n].at > n /\ f[n].at \in Nat /\ f[n + 1].at \in Nat
      BY <1>1, <1>3, <3>1
    <3>3. f[n] \in Readers /\ f[n + 1] = CsvTurn(text, f[n])
      BY <1>2, <3>2
    <3>4. CASE f[n].at > len
      BY <1>1, <3>1, <3>2, <3>3, <3>4, TurnReads
    <3>5. CASE f[n].at <= len
      BY <1>1, <3>2, <3>3, <3>5, TurnReads
    <3>. QED BY <1>1, <3>2, <3>4, <3>5
  <2>3. P = Nat
    <3>1. P \subseteq Nat
      OBVIOUS
    <3> HIDE DEF P
    <3>. QED BY <2>1, <2>2, <3>1, Induction
  <2>. QED BY <1>1, <2>3
<1>6. CASE m <= len
  <2>1. len - m \in Nat /\ m + (len - m) = len
    BY <1>1, <1>6
  <2>2. f[m + (len - m)] = f[m]
    <3>1. f[m].at > len
      BY DEF f
    <3>. QED BY <1>4, <2>1, <3>1
  <2>. QED BY <2>1, <2>2 DEF f
<1>7. CASE m > len
  <2>1. m - len \in Nat /\ len + (m - len) = m
    BY <1>1, <1>7
  <2>2. f[len + (m - len)] = f[len]
    BY <1>1, <1>4, <1>5, <2>1
  <2>. QED BY <2>1, <2>2 DEF f
<1>. QED BY <1>1, <1>6, <1>7

\* A text that stands somewhere stands there in its parts.
LEMMA PartsStand ==
  ASSUME NEW text \in FileTexts, NEW k \in Nat, NEW s \in FileTexts, NEW t \in FileTexts, Stands(text, k, s \o t)
  PROVE  Stands(text, k, s) /\ Stands(text, k + Len(s), t)
<1>1. Len(text) \in Nat /\ Len(s) \in Nat /\ Len(t) \in Nat
  BY LenProperties DEF FileTexts
<1>2. /\ Len(s \o t) = Len(s) + Len(t)
      /\ \A i \in 1 .. Len(s) + Len(t) : (s \o t)[i] = IF i <= Len(s) THEN s[i] ELSE t[i - Len(s)]
  BY ConcatProperties DEF FileTexts
<1>3. k + (Len(s) + Len(t)) <= Len(text) /\ \A j \in 1 .. Len(s) + Len(t) : text[k + j] = (s \o t)[j]
  BY <1>2 DEF Stands
<1>4. ASSUME NEW j \in 1 .. Len(s) PROVE text[k + j] = s[j]
  BY <1>1, <1>2, <1>3
<1>5. ASSUME NEW j \in 1 .. Len(t) PROVE text[(k + Len(s)) + j] = t[j]
  <2>1. Len(s) + j \in 1 .. Len(s) + Len(t) /\ ~(Len(s) + j <= Len(s)) /\ (Len(s) + j) - Len(s) = j
        /\ k + (Len(s) + j) = (k + Len(s)) + j
    BY <1>1
  <2>. QED BY <1>2, <1>3, <2>1
<1>6. k + Len(s) <= Len(text) /\ (k + Len(s)) + Len(t) <= Len(text)
  BY <1>1, <1>3
<1>. QED BY <1>4, <1>5, <1>6 DEF Stands

\* So do the parts of a text that was put together of many.
LEMMA PiecesStand ==
  ASSUME NEW text \in FileTexts, NEW k \in Nat, NEW ss \in Lists(Characters), NEW f \in [Nat -> FileTexts],
         \A i \in 1 .. Len(ss) : f[i] = f[i - 1] \o ss[i], Stands(text, k, f[Len(ss)])
  PROVE  \A i \in 1 .. Len(ss) : Stands(text, k, f[i]) /\ Stands(text, k + Len(f[i - 1]), ss[i])
<1> DEFINE len == Len(ss)
<1>1. len \in Nat /\ \A i \in 1 .. len : ss[i] \in FileTexts
  BY LenProperties, ElementOfSeq DEF Lists, FileTexts
<1> HIDE DEF len
<1>2. ASSUME NEW i \in 1 .. len, Stands(text, k, f[i])
      PROVE  Stands(text, k, f[i - 1]) /\ Stands(text, k + Len(f[i - 1]), ss[i])
  <2>1. i \in Nat /\ i - 1 \in Nat
    BY <1>1
  <2>2. f[i] = f[i - 1] \o ss[i] /\ f[i - 1] \in FileTexts /\ ss[i] \in FileTexts
    BY <1>1, <2>1 DEF len
  <2>3. Stands(text, k, f[i - 1] \o ss[i])
    BY <1>2, <2>2
  <2>. QED BY <2>2, <2>3, PartsStand
<1> DEFINE P == {d \in Nat : d <= len => Stands(text, k, f[len - d])}
<1>3. 0 \in P
  BY <1>1 DEF len
<1>4. ASSUME NEW d \in P PROVE d + 1 \in P
  <2>1. SUFFICES ASSUME d + 1 <= len PROVE Stands(text, k, f[len - (d + 1)])
    OBVIOUS
  <2>2. d \in Nat /\ d <= len /\ len - d \in 1 .. len /\ (len - d) - 1 = len - (d + 1)
    BY <1>1, <2>1
  <2>. QED BY <1>2, <2>2
<1>5. P = Nat
  <2>1. P \subseteq Nat
    OBVIOUS
  <2> HIDE DEF P
  <2>. QED BY <1>3, <1>4, <2>1, Induction
<1>6. ASSUME NEW i \in 1 .. len PROVE Stands(text, k, f[i])
  <2>1. len - i \in Nat /\ len - i <= len /\ len - (len - i) = i
    BY <1>1
  <2>2. len - i \in P
    BY <1>5, <2>1
  <2>. QED BY <2>1, <2>2
<1>. QED BY <1>2, <1>6 DEF len

\* A state the reader comes to, and the one a turn later.
Comes(text, st) == \E n \in Nat : Turns(text)[n] = st

\* It comes to what a turn makes of what it comes to.
LEMMA ComesOn == ASSUME NEW text \in FileTexts, NEW st, Comes(text, st) PROVE Comes(text, CsvTurn(text, st))
<1>1. PICK n \in Nat : Turns(text)[n] = st
  BY DEF Comes
<1>2. n + 1 \in Nat /\ Turns(text)[n + 1] = CsvTurn(text, st)
  BY <1>1, TurnsFollow
<1>. QED BY <1>2 DEF Comes

\* So is a character of a quoted field, a doubled quote for one.
Piece(c) == IF c = "q" THEN <<"q", "q">> ELSE <<c>>

\* It is read as the character it stands for.
LEMMA PieceIsRead ==
  ASSUME NEW text \in FileTexts, NEW k \in Nat, NEW c \in Characters, NEW rowsRead, NEW fields, NEW field,
         Stands(text, k, Piece(c)), Comes(text, Reading(k + 1, rowsRead, fields, field, TRUE, TRUE))
  PROVE  /\ Piece(c) \in FileTexts /\ Len(Piece(c)) \in Nat
         /\ Comes(text, Reading(k + Len(Piece(c)) + 1, rowsRead, fields, Append(field, c), TRUE, TRUE))
<1>1. Len(text) \in Nat
  BY LenProperties DEF FileTexts
<1>2. Piece(c) \in FileTexts /\ Len(Piece(c)) = IF c = "q" THEN 2 ELSE 1
  <2>1. "q" \in Characters
    BY DEF Characters
  <2>2. CASE c = "q"
    BY <2>1, <2>2 DEF Piece, FileTexts
  <2>3. CASE c # "q"
    BY <2>3 DEF Piece, FileTexts
  <2>. QED BY <2>2, <2>3
<1> DEFINE spot == k + 1
<1>3. spot \in Nat \ {0} /\ spot <= Len(text) /\ text[spot] = c
  <2>1. text[k + 1] = Piece(c)[1] /\ k + 1 <= Len(text)
    BY <1>1, <1>2 DEF Stands
  <2>. QED BY <2>1 DEF Piece
<1>4. c = "q" => spot < Len(text) /\ text[spot + 1] = "q"
  <2>1. SUFFICES ASSUME c = "q" PROVE spot < Len(text) /\ text[spot + 1] = "q"
    OBVIOUS
  <2>2. text[k + 2] = Piece(c)[2] /\ k + 2 <= Len(text)
    BY <1>1, <1>2, <2>1 DEF Stands
  <2>3. k + 2 = spot + 1 /\ Piece(c)[2] = "q"
    BY <2>1 DEF Piece
  <2>. QED BY <1>1, <2>2, <2>3
<1>5. k + Len(Piece(c)) + 1 = IF c = "q" THEN spot + 2 ELSE spot + 1
  BY <1>2
<1> HIDE DEF spot
<1>6. Turned(text, spot, rowsRead, fields, field, TRUE, TRUE)
  BY <1>3, TurnBy
<1>7. CsvTurn(text, Reading(spot, rowsRead, fields, field, TRUE, TRUE)) =
        Reading(k + Len(Piece(c)) + 1, rowsRead, fields, Append(field, c), TRUE, TRUE)
  <2>1. CASE c = "q"
    BY <1>3, <1>4, <1>5, <1>6, <2>1 DEF Turned
  <2>2. CASE c # "q"
    BY <1>3, <1>5, <1>6, <2>2 DEF Turned
  <2>. QED BY <2>1, <2>2
<1>8. Comes(text, Reading(spot, rowsRead, fields, field, TRUE, TRUE))
  BY DEF spot
<1>9. Comes(text, CsvTurn(text, Reading(spot, rowsRead, fields, field, TRUE, TRUE)))
  BY <1>8, ComesOn
<1>10. Len(Piece(c)) \in Nat
  BY <1>2
<1>. QED BY <1>2, <1>7, <1>9, <1>10

\* A quoted field is read, whatever characters it is of.
LEMMA QuotedIsRead ==
  ASSUME NEW text \in FileTexts, NEW k \in Nat, NEW x \in FileTexts, NEW rowsRead, NEW fields, NEW saw,
         Stands(text, k, Quote(x)), k + Len(Quote(x)) < Len(text), text[k + Len(Quote(x)) + 1] # "q",
         Comes(text, Reading(k + 1, rowsRead, fields, <<>>, FALSE, saw))
  PROVE  Comes(text, Reading(k + Len(Quote(x)) + 1, rowsRead, fields, x, FALSE, TRUE))
<1> DEFINE quote == <<"q">>
           ss == [i \in DOMAIN x |-> IF x[i] = "q" THEN <<"q", "q">> ELSE <<x[i]>>]
           doubled == FlattenSeq(ss)
           len == Len(x)
           size == Len(text)
<1>1. /\ len \in Nat /\ DOMAIN x = 1 .. len /\ size \in Nat
      /\ \A i \in 1 .. len : x[i] \in Characters
  BY LenProperties, ElementOfSeq DEF FileTexts
<1>2. quote \in FileTexts /\ Len(quote) = 1 /\ quote[1] = "q"
  BY DEF FileTexts, Characters
<1>3. ss \in Lists(Characters) /\ Len(ss) = len
  <2>1. ASSUME NEW c \in Characters PROVE <<c>> \in FileTexts /\ <<"q", "q">> \in FileTexts
    BY DEF FileTexts, Characters
  <2>2. \A i \in 1 .. len : (IF x[i] = "q" THEN <<"q", "q">> ELSE <<x[i]>>) \in Seq(Characters)
    BY <1>1, <2>1 DEF FileTexts
  <2>3. ss = [i \in 1 .. len |-> IF x[i] = "q" THEN <<"q", "q">> ELSE <<x[i]>>]
    BY <1>1
  <2> HIDE DEF len
  <2>. QED BY <1>1, <2>2, <2>3, IsASeq DEF Lists
<1>4. PICK f \in [Nat -> FileTexts] :
        /\ f[0] = <<>> /\ doubled = f[len] /\ \A i \in 1 .. len : f[i] = f[i - 1] \o ss[i]
  <2> HIDE DEF ss, len
  <2>. QED BY <1>3, Flattened DEF FileTexts
<1>5. doubled \in FileTexts /\ Quote(x) = (quote \o doubled) \o quote
  BY <1>1, <1>4 DEF Quote
<1> HIDE DEF quote, ss, doubled, len, size
<1>6. quote \o doubled \in FileTexts /\ Len(quote \o doubled) = 1 + Len(doubled) /\ Len(doubled) \in Nat
      /\ Len(Quote(x)) = 2 + Len(doubled)
  <2>1. /\ quote \o doubled \in Seq(Characters) /\ Len(quote \o doubled) = Len(quote) + Len(doubled)
    BY <1>2, <1>5, ConcatProperties DEF FileTexts
  <2>2. Len((quote \o doubled) \o quote) = Len(quote \o doubled) + Len(quote)
    BY <1>2, <2>1, ConcatProperties DEF FileTexts
  <2>3. Len(doubled) \in Nat
    BY <1>5, LenProperties DEF FileTexts
  <2>. QED BY <1>2, <1>5, <2>1, <2>2, <2>3 DEF FileTexts
<1>7. /\ Stands(text, k, quote) /\ Stands(text, k + 1, doubled) /\ Stands(text, k + 1 + Len(doubled), quote)
  <2>1. Stands(text, k, quote \o doubled) /\ Stands(text, k + (1 + Len(doubled)), quote)
    <3>1. Stands(text, k, (quote \o doubled) \o quote)
      BY <1>5
    <3>. QED BY <1>2, <1>6, <3>1, PartsStand
  <2>2. Stands(text, k, quote) /\ Stands(text, k + 1, doubled)
    BY <1>2, <1>5, <2>1, PartsStand
  <2>3. k + (1 + Len(doubled)) = k + 1 + Len(doubled)
    BY <1>6
  <2>. QED BY <2>1, <2>2, <2>3
<1>8. \A i \in 1 .. len : Stands(text, k + 1, f[i]) /\ Stands(text, k + 1 + Len(f[i - 1]), ss[i])
  <2>1. Len(ss) = len /\ k + 1 \in Nat /\ Stands(text, k + 1, f[Len(ss)])
    BY <1>3, <1>4, <1>7
  <2>2. \A i \in 1 .. Len(ss) : f[i] = f[i - 1] \o ss[i]
    BY <1>4, <2>1
  <2>. QED BY <1>3, <2>1, <2>2, PiecesStand
<1> DEFINE AtStep(i) == Reading(k + 2 + Len(f[i]), rowsRead, fields, SubSeq(x, 1, i), TRUE, TRUE)
<1> HIDE DEF AtStep
<1>9. \A i \in Nat : i <= len => Comes(text, AtStep(i))
  <2> DEFINE P == {i \in Nat : i <= len => Comes(text, AtStep(i))}
  <2>1. 0 \in P
    <3>1. text[k + 1] = "q" /\ k + 1 \in Nat \ {0} /\ k + 1 <= Len(text)
      <4>1. k + 1 <= size /\ text[k + 1] = "q"
        BY <1>2, <1>7 DEF Stands, size
      <4>. QED BY <4>1 DEF size
    <3>2. Turned(text, k + 1, rowsRead, fields, <<>>, FALSE, saw)
      BY <3>1, TurnBy
    <3>5. CsvTurn(text, Reading(k + 1, rowsRead, fields, <<>>, FALSE, saw)) =
            Reading((k + 1) + 1, rowsRead, fields, <<>>, TRUE, TRUE)
      BY <3>1, <3>2 DEF Turned
    <3>3. Comes(text, Reading((k + 1) + 1, rowsRead, fields, <<>>, TRUE, TRUE))
      BY <3>5, ComesOn
    <3>4. Len(f[0]) = 0 /\ SubSeq(x, 1, 0) = <<>> /\ (k + 1) + 1 = k + 2 + 0
      BY <1>4, EmptySeq, SubSeqEmpty
    <3>. QED BY <3>3, <3>4 DEF AtStep
  <2>2. ASSUME NEW i \in P PROVE i + 1 \in P
    <3>1. SUFFICES ASSUME i + 1 <= len PROVE Comes(text, AtStep(i + 1))
      OBVIOUS
    <3>0. i \in Nat /\ (i <= len => Comes(text, AtStep(i)))
      OBVIOUS
    <3> HIDE DEF P
    <3>2. i \in Nat /\ i + 1 \in 1 .. len /\ (i + 1) - 1 = i /\ Comes(text, AtStep(i))
      BY <1>1, <3>0, <3>1
    <3>3. f[i] \in FileTexts /\ Len(f[i]) \in Nat
      BY <3>2, LenProperties DEF FileTexts
    <3>4. SubSeq(x, 1, i + 1) = Append(SubSeq(x, 1, i), x[i + 1])
      BY <3>1, <3>2, OneLonger DEF FileTexts, len
    <3> DEFINE m == k + 1 + Len(f[i])
               piece == Piece(x[i + 1])
    <3>5. /\ m \in Nat /\ x[i + 1] \in Characters /\ ss[i + 1] = piece
          /\ Stands(text, m, ss[i + 1]) /\ f[i + 1] = f[i] \o ss[i + 1]
      <4>1. f[i + 1] = f[(i + 1) - 1] \o ss[i + 1] /\ Stands(text, k + 1 + Len(f[(i + 1) - 1]), ss[i + 1])
        BY <1>4, <1>8, <3>2
      <4>2. ss[i + 1] = piece
        BY <1>1, <3>2 DEF ss, Piece
      <4>. QED BY <1>1, <3>2, <3>3, <4>1, <4>2
    <3>6. m + 1 = k + 2 + Len(f[i])
      <4> DEFINE n == Len(f[i])
      <4>1. n \in Nat /\ m = k + 1 + n
        BY <3>3
      <4> HIDE DEF n, m
      <4>2. m + 1 = k + 2 + n
        BY <4>1
      <4>. QED BY <4>2 DEF n
    <3> HIDE DEF m, piece
    <3>7. Comes(text, Reading(m + 1, rowsRead, fields, SubSeq(x, 1, i), TRUE, TRUE))
      BY <3>2, <3>6 DEF AtStep
    <3>8. /\ piece \in FileTexts /\ Len(piece) \in Nat
          /\ Comes(text, Reading(m + Len(piece) + 1, rowsRead, fields, SubSeq(x, 1, i + 1), TRUE, TRUE))
      BY <3>4, <3>5, <3>7, PieceIsRead DEF piece
    <3>9. Len(f[i + 1]) = Len(f[i]) + Len(piece)
      BY <3>3, <3>5, <3>8, ConcatProperties DEF FileTexts
    <3>10. m + Len(piece) + 1 = k + 2 + Len(f[i + 1])
      <4> DEFINE n == Len(f[i])  p == Len(piece)  o == Len(f[i + 1])
      <4>1. n \in Nat /\ p \in Nat /\ o = n + p /\ m + 1 = k + 2 + n /\ m \in Nat
        BY <3>3, <3>5, <3>6, <3>8, <3>9
      <4> HIDE DEF n, p, o
      <4>2. m + p + 1 = k + 2 + o
        BY <4>1
      <4>. QED BY <4>2 DEF o, p
    <3>. QED BY <3>8, <3>10 DEF AtStep
  <2>3. P = Nat
    <3>1. P \subseteq Nat
      OBVIOUS
    <3> HIDE DEF P
    <3>. QED BY <2>1, <2>2, <3>1, Induction
  <2>. QED BY <2>3
<1>10. Comes(text, Reading(k + 2 + Len(doubled), rowsRead, fields, x, TRUE, TRUE))
  <2>1. SubSeq(x, 1, len) = x
    BY SubSeqFull DEF FileTexts, len
  <2>2. len <= len
    BY <1>1
  <2>3. Comes(text, AtStep(len))
    BY <1>1, <1>9, <2>2
  <2>. QED BY <1>4, <2>1, <2>3 DEF AtStep
<1> DEFINE end == k + 2 + Len(doubled)
<1>11. text[end] = "q" /\ end \in Nat \ {0} /\ end < size /\ end <= size /\ text[end + 1] # "q"
  <2>1. text[(k + 1 + Len(doubled)) + 1] = "q"
    BY <1>2, <1>7 DEF Stands
  <2>2. (k + 1 + Len(doubled)) + 1 = end /\ k + Len(Quote(x)) = end
    BY <1>6
  <2>. QED BY <1>1, <1>6, <2>1, <2>2 DEF size
<1>12. end + 1 = k + Len(Quote(x)) + 1
  BY <1>6
<1> HIDE DEF end
<1>13. CsvTurn(text, Reading(end, rowsRead, fields, x, TRUE, TRUE)) = Reading(end + 1, rowsRead, fields, x, FALSE, TRUE)
  <2>1. Turned(text, end, rowsRead, fields, x, TRUE, TRUE)
    BY <1>11, TurnBy DEF size
  <2>. QED BY <1>11, <2>1 DEF Turned
<1>. QED BY <1>10, <1>12, <1>13, ComesOn DEF end

\* A quoted field is a text.
LEMMA QuoteIsText == ASSUME NEW x \in FileTexts PROVE Quote(x) \in FileTexts
<1> DEFINE quote == <<"q">>
           ss == [i \in DOMAIN x |-> IF x[i] = "q" THEN <<"q", "q">> ELSE <<x[i]>>]
<1>1. Len(x) \in Nat /\ DOMAIN x = 1 .. Len(x) /\ \A i \in 1 .. Len(x) : x[i] \in Characters
  BY LenProperties, ElementOfSeq DEF FileTexts
<1>2. quote \in Seq(Characters)
  BY DEF Characters
<1>3. ss \in Lists(Characters)
  <2>1. ASSUME NEW c \in Characters PROVE <<c>> \in FileTexts /\ <<"q", "q">> \in FileTexts
    BY DEF FileTexts, Characters
  <2>2. \A i \in 1 .. Len(x) : (IF x[i] = "q" THEN <<"q", "q">> ELSE <<x[i]>>) \in Seq(Characters)
    BY <1>1, <2>1 DEF FileTexts
  <2>3. ss = [i \in 1 .. Len(x) |-> IF x[i] = "q" THEN <<"q", "q">> ELSE <<x[i]>>]
    BY <1>1
  <2>. QED BY <1>1, <2>2, <2>3, IsASeq DEF Lists
<1>4. FlattenSeq(ss) \in Seq(Characters)
  <2> HIDE DEF ss
  <2>. QED BY <1>3, FlatIsSeq
<1>5. Quote(x) = (quote \o FlattenSeq(ss)) \o quote
  BY DEF Quote
<1> HIDE DEF quote, ss
<1>6. quote \o FlattenSeq(ss) \in Seq(Characters)
  BY <1>2, <1>4, ConcatProperties
<1>. QED BY <1>2, <1>5, <1>6, ConcatProperties DEF FileTexts

\* Fields that are written: the reader strips a return from the end of one.
CellTexts == {x \in FileTexts : x = <<>> \/ Last(x) # "r"}

\* It strips the return of a line's end, too.
LEMMA ReturnIsStripped == ASSUME NEW x \in FileTexts PROVE Append(x, "r") \in FileTexts /\ Bare(Append(x, "r")) = x
<1> DEFINE y == Append(x, "r")
<1>1. Len(x) \in Nat /\ "r" \in Characters
  BY LenProperties DEF FileTexts, Characters
<1>2. /\ y \in Seq(Characters) /\ Len(y) = Len(x) + 1
      /\ \A i \in 1 .. Len(x) + 1 : y[i] = IF i <= Len(x) THEN x[i] ELSE "r"
  BY <1>1, AppendProperties DEF FileTexts
<1> HIDE DEF y
<1>3. \A i \in 1 .. Len(x) : y[i] \in Characters
  BY <1>1, <1>2, ElementOfSeq
<1>4. y # <<>> /\ Last(y) = "r"
  <2>1. y[Len(x) + 1] = "r"
    BY <1>1, <1>2
  <2>2. y # <<>>
    BY <1>1, <1>2, EmptySeq
  <2>. QED BY <1>2, <2>1, <2>2 DEF Last
<1>5. Bare(y) = SubSeq(y, 1, Len(x))
  <2>1. Len(y) - 1 = Len(x)
    BY <1>1, <1>2
  <2>. QED BY <1>4, <2>1 DEF Bare, Front
<1> DEFINE z == SubSeq(y, 1, Len(x))
<1>6. z \in Seq(Characters) /\ Len(z) = Len(x) /\ \A i \in 1 .. Len(x) : z[i] = y[i]
  <2>1. 1 \in Int /\ Len(x) \in Int /\ Len(x) - 1 + 1 = Len(x)
    BY <1>1
  <2>2. /\ SubSeq(y, 1, Len(x)) \in Seq(Characters)
        /\ Len(SubSeq(y, 1, Len(x))) = IF 1 <= Len(x) THEN Len(x) - 1 + 1 ELSE 0
        /\ \A i \in 1 .. Len(x) - 1 + 1 : SubSeq(y, 1, Len(x))[i] = y[1 + i - 1]
    BY <1>3, <2>1, SubSeqProperties
  <2>. QED BY <1>1, <2>1, <2>2
<1> HIDE DEF z
<1>7. z = x
  <2>1. \A i \in 1 .. Len(z) : z[i] = x[i]
    BY <1>1, <1>2, <1>6
  <2>. QED BY <1>6, <2>1, SeqEqual DEF FileTexts
<1>. QED BY <1>2, <1>5, <1>7 DEF y, z, FileTexts

CsvLine(a, b, ending) == Quote(a) \o <<"c">> \o Quote(b) \o ending

Endings == {<<"n">>, <<"r", "n">>}

\* A line's end is a text.
LEMMA EndingIsText == ASSUME NEW ending \in Endings PROVE ending \in FileTexts
<1>1. "n" \in Characters /\ "r" \in Characters
  BY DEF Characters
<1>2. CASE ending = <<"n">>
  BY <1>1, <1>2 DEF FileTexts
<1>3. CASE ending = <<"r", "n">>
  BY <1>1, <1>3 DEF FileTexts
<1>. QED BY <1>2, <1>3 DEF Endings

\* A pair is one appended to the other.
LEMMA PairAppended == ASSUME NEW a, NEW b PROVE Append(<<a>>, b) = <<a, b>>
<1> DEFINE S == {a, b}
           s == <<a>>
           t == <<a, b>>
<1>1. s \in Seq(S) /\ Len(s) = 1 /\ s[1] = a /\ b \in S
  OBVIOUS
<1>2. t \in Seq(S) /\ Len(t) = 2 /\ t[1] = a /\ t[2] = b
  OBVIOUS
<1> HIDE DEF s, t, S
<1>3. /\ Append(s, b) \in Seq(S) /\ Len(Append(s, b)) = 2
      /\ Append(s, b)[1] = a /\ Append(s, b)[2] = b
  <2>1. /\ Append(s, b) \in Seq(S) /\ Len(Append(s, b)) = Len(s) + 1
        /\ \A i \in 1 .. Len(s) : Append(s, b)[i] = s[i]
        /\ Append(s, b)[Len(s) + 1] = b
    BY <1>1, AppendProperties
  <2>. QED BY <1>1, <2>1
<1>4. \A i \in 1 .. 2 : Append(s, b)[i] = t[i]
  BY <1>2, <1>3
<1>5. Append(s, b) = t
  BY <1>1, <1>2, <1>3, <1>4, SeqEqual
<1>. QED BY <1>5 DEF s, t

\* A line of two quoted fields is read as the record of them.
LEMMA LineIsRead ==
  ASSUME NEW text \in FileTexts, NEW k \in Nat, NEW a \in CellTexts, NEW b \in CellTexts, NEW ending \in Endings,
         NEW rowsRead, Stands(text, k, CsvLine(a, b, ending)),
         Comes(text, Reading(k + 1, rowsRead, <<>>, <<>>, FALSE, FALSE))
  PROVE  /\ CsvLine(a, b, ending) \in FileTexts
         /\ Comes(text, Reading(k + Len(CsvLine(a, b, ending)) + 1, Append(rowsRead, <<a, b>>), <<>>, <<>>,
                                FALSE, FALSE))
<1> DEFINE qa == Quote(a)  qb == Quote(b)  comma == <<"c">>  size == Len(text)
           la == Len(qa)  lb == Len(qb)  le == Len(ending)
<1>1. a \in FileTexts /\ b \in FileTexts /\ Bare(a) = a /\ Bare(b) = b
  BY DEF CellTexts, Bare
<1>2. /\ qa \in FileTexts /\ qb \in FileTexts /\ comma \in FileTexts /\ ending \in FileTexts
      /\ la \in Nat /\ lb \in Nat /\ le \in Nat /\ Len(comma) = 1 /\ size \in Nat
  <2>1. ending \in FileTexts /\ comma \in FileTexts /\ Len(comma) = 1
    <3>1. "c" \in Characters
      BY DEF Characters
    <3>2. comma \in FileTexts /\ Len(comma) = 1
      BY <3>1 DEF FileTexts
    <3>. QED BY <3>2, EndingIsText
  <2>2. qa \in FileTexts /\ qb \in FileTexts
    BY <1>1, QuoteIsText
  <2>. QED BY <2>1, <2>2, LenProperties DEF FileTexts
<1>3. CsvLine(a, b, ending) = ((qa \o comma) \o qb) \o ending
  BY DEF CsvLine
<1> HIDE DEF qa, qb, comma
<1>4. qa \o comma \in FileTexts /\ Len(qa \o comma) = la + 1
  <2>1. qa \o comma \in FileTexts /\ Len(qa \o comma) = Len(qa) + Len(comma)
    BY <1>2, ConcatProperties DEF FileTexts
  <2>. QED BY <1>2, <2>1
<1>5. (qa \o comma) \o qb \in FileTexts /\ Len((qa \o comma) \o qb) = (la + 1) + lb
  <2>1. (qa \o comma) \o qb \in FileTexts /\ Len((qa \o comma) \o qb) = Len(qa \o comma) + Len(qb)
    BY <1>2, <1>4, ConcatProperties DEF FileTexts
  <2>. QED BY <1>4, <2>1
<1>6. CsvLine(a, b, ending) \in FileTexts /\ Len(CsvLine(a, b, ending)) = ((la + 1) + lb) + le
  <2>1. /\ ((qa \o comma) \o qb) \o ending \in FileTexts
        /\ Len(((qa \o comma) \o qb) \o ending) = Len((qa \o comma) \o qb) + Len(ending)
    BY <1>2, <1>5, ConcatProperties DEF FileTexts
  <2>. QED BY <1>3, <1>5, <2>1
<1>7. Stands(text, k, (qa \o comma) \o qb) /\ Stands(text, k + ((la + 1) + lb), ending)
  <2>1. Stands(text, k, ((qa \o comma) \o qb) \o ending)
    BY <1>3
  <2>. QED BY <1>2, <1>5, <2>1, PartsStand
<1>8. Stands(text, k, qa \o comma) /\ Stands(text, k + (la + 1), qb)
  BY <1>2, <1>4, <1>7, PartsStand
<1>9. Stands(text, k, qa) /\ Stands(text, k + la, comma)
  BY <1>2, <1>8, PartsStand
<1>10. text[k + la + 1] = "c" /\ k + la + 1 <= size
  <2>1. Len(comma) = 1 /\ comma[1] = "c"
    BY DEF comma
  <2>. QED BY <1>2, <1>9, <2>1 DEF Stands
<1> HIDE DEF size, la, lb, le
<1> DEFINE m == k + la + 1
           e == m + lb + 1
<1>11. /\ m \in Nat \ {0} /\ e \in Nat \ {0} /\ k + (la + 1) = m /\ k + ((la + 1) + lb) + 1 = e
       /\ k + la < size /\ m <= size
       /\ k + (((la + 1) + lb) + le) + 1 = e + le
  BY <1>2, <1>10
<1>12. Comes(text, Reading(k + la + 1, rowsRead, <<>>, a, FALSE, TRUE))
  <2>1. k + Len(Quote(a)) < Len(text) /\ text[k + Len(Quote(a)) + 1] # "q" /\ Stands(text, k, Quote(a))
    BY <1>9, <1>10, <1>11 DEF la, qa, size
  <2>. QED BY <1>1, <2>1, QuotedIsRead DEF la, qa
<1>13. Comes(text, Reading(m + 1, rowsRead, <<a>>, <<>>, FALSE, TRUE))
  <2>1. Turned(text, m, rowsRead, <<>>, a, FALSE, TRUE)
    BY <1>11, TurnBy DEF size
  <2>2. CsvTurn(text, Reading(m, rowsRead, <<>>, a, FALSE, TRUE)) =
          Reading(m + 1, rowsRead, Append(<<>>, Bare(a)), <<>>, FALSE, TRUE)
    BY <1>10, <2>1 DEF Turned
  <2>3. Append(<<>>, Bare(a)) = <<a>>
    BY <1>1
  <2>. QED BY <1>12, <2>2, <2>3, ComesOn
<1>14. /\ e <= size /\ text[e] = ending[1] /\ text[e] # "q"
       /\ ending = <<"r", "n">> => e + 1 <= size /\ text[e + 1] = "n"
  <2> DEFINE s == k + ((la + 1) + lb)
  <2>1. s + le <= size /\ \A j \in 1 .. le : text[s + j] = ending[j]
    BY <1>7 DEF Stands, size, le
  <2>2. s + 1 = e /\ s \in Nat
    BY <1>2, <1>11
  <2> HIDE DEF s, e
  <2>3. CASE ending = <<"n">>
    <3>1. le = 1 /\ ending[1] = "n"
      BY <2>3 DEF le
    <3>2. text[s + 1] = "n" /\ s + 1 <= size
      BY <2>1, <3>1
    <3>. QED BY <2>2, <2>3, <3>1, <3>2
  <2>4. CASE ending = <<"r", "n">>
    <3>1. le = 2 /\ ending[1] = "r" /\ ending[2] = "n"
      BY <2>4 DEF le
    <3>2. text[s + 1] = "r" /\ text[s + 2] = "n" /\ s + 2 <= size
      BY <2>1, <3>1
    <3>3. s + 2 = e + 1 /\ s + 1 <= size
      BY <1>2, <2>2, <3>2
    <3>. QED BY <2>2, <3>1, <3>2, <3>3
  <2>. QED BY <2>3, <2>4 DEF Endings
<1>15. Comes(text, Reading(e, rowsRead, <<a>>, b, FALSE, TRUE))
  <2>1. Stands(text, m, Quote(b)) /\ Comes(text, Reading(m + 1, rowsRead, <<a>>, <<>>, FALSE, TRUE))
    BY <1>8, <1>11, <1>13 DEF qb
  <2>2. m + Len(Quote(b)) < Len(text) /\ text[m + Len(Quote(b)) + 1] # "q" /\ m \in Nat
    <3>1. m + lb < size
      BY <1>2, <1>11, <1>14
    <3>. QED BY <1>11, <1>14, <3>1 DEF lb, qb, size
  <2> HIDE DEF m
  <2>3. Comes(text, Reading(m + Len(Quote(b)) + 1, rowsRead, <<a>>, b, FALSE, TRUE))
    BY <1>1, <2>1, <2>2, QuotedIsRead
  <2>. QED BY <2>3 DEF lb, qb
<1> HIDE DEF m, e
<1>16. CASE ending = <<"n">>
  <2>1. text[e] = "n" /\ le = 1
    BY <1>14, <1>16 DEF le
  <2>2. Turned(text, e, rowsRead, <<a>>, b, FALSE, TRUE)
    BY <1>11, <1>14, TurnBy DEF size
  <2>3. CsvTurn(text, Reading(e, rowsRead, <<a>>, b, FALSE, TRUE)) =
          Reading(e + 1, Append(rowsRead, Append(<<a>>, Bare(b))), <<>>, <<>>, FALSE, FALSE)
    BY <2>1, <2>2 DEF Turned
  <2>4. Append(<<a>>, Bare(b)) = <<a, b>>
    BY <1>1, PairAppended
  <2>. QED BY <1>6, <1>11, <1>15, <2>1, <2>3, <2>4, ComesOn
<1>17. CASE ending = <<"r", "n">>
  <2>1. text[e] = "r" /\ text[e + 1] = "n" /\ e + 1 <= size /\ le = 2
    BY <1>14, <1>17 DEF le
  <2>2. Turned(text, e, rowsRead, <<a>>, b, FALSE, TRUE)
    BY <1>11, <1>14, TurnBy DEF size
  <2>3. CsvTurn(text, Reading(e, rowsRead, <<a>>, b, FALSE, TRUE)) =
          Reading(e + 1, rowsRead, <<a>>, Append(b, "r"), FALSE, TRUE)
    BY <2>1, <2>2 DEF Turned
  <2>4. Comes(text, Reading(e + 1, rowsRead, <<a>>, Append(b, "r"), FALSE, TRUE))
    BY <1>15, <2>3, ComesOn
  <2> DEFINE d == e + 1
             br == Append(b, "r")
  <2>5. d \in Nat \ {0} /\ d <= size /\ text[d] = "n" /\ d + 1 = e + 2
    BY <1>11, <2>1
  <2>6. br \in FileTexts /\ Bare(br) = b
    BY <1>1, ReturnIsStripped
  <2>9. Comes(text, Reading(d, rowsRead, <<a>>, br, FALSE, TRUE))
    BY <2>4
  <2> HIDE DEF d, br
  <2>7. Turned(text, d, rowsRead, <<a>>, br, FALSE, TRUE)
    BY <2>5, TurnBy DEF size
  <2>8. CsvTurn(text, Reading(d, rowsRead, <<a>>, br, FALSE, TRUE)) =
          Reading(d + 1, Append(rowsRead, <<a, b>>), <<>>, <<>>, FALSE, FALSE)
    <3>1. Append(<<a>>, Bare(br)) = <<a, b>>
      BY <2>6, PairAppended
    <3>. QED BY <2>5, <2>7, <3>1 DEF Turned
  <2>. QED BY <1>6, <1>11, <2>1, <2>5, <2>8, <2>9, ComesOn
<1>. QED BY <1>16, <1>17 DEF Endings

\* A file of such lines is read as the records it was written from.
LEMMA FileIsRead ==
  ASSUME NEW rows \in Seq(CellTexts \X CellTexts), NEW ending \in Endings
  PROVE  TokenizeCsv(CsvText(rows, ending)) = rows
<1> DEFINE ss == [r \in DOMAIN rows |-> CsvLine(rows[r][1], rows[r][2], ending)]
           text == CsvText(rows, ending)
           len == Len(rows)
<1>1. /\ len \in Nat /\ DOMAIN rows = 1 .. len
      /\ \A r \in 1 .. len : rows[r] \in CellTexts \X CellTexts
  BY LenProperties, ElementOfSeq
<1>2. \A r \in 1 .. len : rows[r][1] \in CellTexts /\ rows[r][2] \in CellTexts
                          /\ rows[r] = <<rows[r][1], rows[r][2]>>
  BY <1>1
<1>3. \A r \in 1 .. len : CsvLine(rows[r][1], rows[r][2], ending) \in FileTexts
  <2>1. ASSUME NEW a \in CellTexts, NEW b \in CellTexts PROVE CsvLine(a, b, ending) \in FileTexts
    <3>1. Quote(a) \in Seq(Characters) /\ Quote(b) \in Seq(Characters) /\ ending \in Seq(Characters)
          /\ <<"c">> \in Seq(Characters)
      <4>1. a \in FileTexts /\ b \in FileTexts
        BY DEF CellTexts
      <4>2. Quote(a) \in FileTexts /\ Quote(b) \in FileTexts /\ ending \in FileTexts
        BY <4>1, QuoteIsText, EndingIsText
      <4>3. "c" \in Characters
        BY DEF Characters
      <4>4. <<"c">> \in Seq(Characters)
        BY <4>3
      <4>. QED BY <4>2, <4>4 DEF FileTexts
    <3> DEFINE c == <<"c">>
    <3> HIDE DEF c
    <3>2. c \in Seq(Characters)
      BY <3>1 DEF c
    <3>3. Quote(a) \o c \in Seq(Characters)
      BY <3>1, <3>2, ConcatProperties
    <3>4. (Quote(a) \o c) \o Quote(b) \in Seq(Characters)
      BY <3>1, <3>3, ConcatProperties
    <3>5. ((Quote(a) \o c) \o Quote(b)) \o ending \in Seq(Characters)
      BY <3>1, <3>4, ConcatProperties
    <3>. QED BY <3>5 DEF CsvLine, c, FileTexts
  <2>. QED BY <1>2, <2>1
<1>4. ss \in Lists(Characters) /\ Len(ss) = len
  <2>1. \A r \in 1 .. len : CsvLine(rows[r][1], rows[r][2], ending) \in Seq(Characters)
    BY <1>3 DEF FileTexts
  <2>2. ss = [r \in 1 .. len |-> CsvLine(rows[r][1], rows[r][2], ending)]
    BY <1>1
  <2> HIDE DEF len
  <2>. QED BY <1>1, <2>1, <2>2, IsASeq DEF Lists
<1>5. text = FlattenSeq(ss)
  BY DEF CsvText, CsvLine
<1> HIDE DEF len, ss, text
<1>6. PICK f \in [Nat -> FileTexts] :
        /\ f[0] = <<>> /\ text = f[len] /\ \A r \in 1 .. len : f[r] = f[r - 1] \o ss[r]
  BY <1>4, <1>5, Flattened DEF FileTexts
<1>7. text \in FileTexts /\ Len(text) \in Nat
  <2>1. text \in FileTexts
    BY <1>1, <1>6
  <2>. QED BY <2>1, LenProperties DEF FileTexts
<1>8. \A r \in 1 .. len : Stands(text, 0 + Len(f[r - 1]), ss[r])
  <2>1. Stands(text, 0, f[Len(ss)])
    <3>1. 0 + Len(text) <= Len(text) /\ \A j \in 1 .. Len(text) : text[0 + j] = text[j]
      BY <1>7
    <3>. QED BY <1>4, <1>6, <3>1 DEF Stands
  <2>2. \A r \in 1 .. Len(ss) : f[r] = f[r - 1] \o ss[r]
    BY <1>4, <1>6
  <2>3. 0 \in Nat
    OBVIOUS
  <2>4. \A r \in 1 .. Len(ss) : Stands(text, 0, f[r]) /\ Stands(text, 0 + Len(f[r - 1]), ss[r])
    BY <1>4, <1>7, <2>1, <2>2, <2>3, PiecesStand
  <2>. QED BY <1>4, <2>4
<1> DEFINE AtStep(r) == Reading(Len(f[r]) + 1, SubSeq(rows, 1, r), <<>>, <<>>, FALSE, FALSE)
<1> HIDE DEF AtStep
<1>9. \A r \in Nat : r <= len => Comes(text, AtStep(r))
  <2> DEFINE P == {r \in Nat : r <= len => Comes(text, AtStep(r))}
  <2>1. 0 \in P
    <3>1. SubSeq(rows, 1, 0) = <<>> /\ Len(f[0]) + 1 = 1
      BY <1>6, SubSeqEmpty, EmptySeq
    <3>2. AtStep(0) = CsvStart
      BY <3>1 DEF AtStep, Reading, CsvStart
    <3>3. Turns(text)[0] = AtStep(0) /\ 0 \in Nat
      BY <1>7, <3>2, TurnsFollow
    <3>. QED BY <3>3 DEF Comes
  <2>2. ASSUME NEW r \in P PROVE r + 1 \in P
    <3>1. SUFFICES ASSUME r + 1 <= len PROVE Comes(text, AtStep(r + 1))
      OBVIOUS
    <3>2. r \in Nat /\ (r <= len => Comes(text, AtStep(r)))
      OBVIOUS
    <3> HIDE DEF P
    <3>3. r + 1 \in 1 .. len /\ (r + 1) - 1 = r /\ Comes(text, AtStep(r))
      BY <1>1, <3>1, <3>2
    <3> DEFINE k == Len(f[r])
               line == ss[r + 1]
               a == rows[r + 1][1]
               b == rows[r + 1][2]
    <3>4. f[r] \in FileTexts /\ k \in Nat
      BY <3>2, LenProperties DEF FileTexts
    <3>5. /\ a \in CellTexts /\ b \in CellTexts /\ rows[r + 1] = <<a, b>>
          /\ line = CsvLine(a, b, ending)
      BY <1>1, <1>2, <3>3 DEF ss
    <3>6. Stands(text, k, line) /\ f[r + 1] = f[r] \o line
      <4>1. Stands(text, 0 + Len(f[(r + 1) - 1]), line) /\ f[r + 1] = f[(r + 1) - 1] \o line
        BY <1>6, <1>8, <3>3
      <4>2. 0 + k = k
        BY <3>4
      <4> HIDE DEF line
      <4>. QED BY <3>3, <4>1, <4>2
    <3>7. SubSeq(rows, 1, r + 1) = Append(SubSeq(rows, 1, r), rows[r + 1])
      BY <3>1, <3>2, OneLonger DEF len
    <3> HIDE DEF k, line, a, b
    <3>8. Comes(text, Reading(k + 1, SubSeq(rows, 1, r), <<>>, <<>>, FALSE, FALSE))
      BY <3>3 DEF AtStep, k
    <3>9. line \in FileTexts /\ Comes(text, Reading(k + Len(line) + 1, SubSeq(rows, 1, r + 1), <<>>, <<>>, FALSE, FALSE))
      BY <1>7, <3>4, <3>5, <3>6, <3>7, <3>8, LineIsRead
    <3>10. Len(f[r + 1]) = k + Len(line)
      BY <3>4, <3>6, <3>9, ConcatProperties DEF FileTexts, k
    <3>. QED BY <3>9, <3>10 DEF AtStep
  <2>3. P = Nat
    <3>1. P \subseteq Nat
      OBVIOUS
    <3> HIDE DEF P
    <3>. QED BY <2>1, <2>2, <3>1, Induction
  <2>. QED BY <2>3
<1>10. Comes(text, Reading(Len(text) + 1, rows, <<>>, <<>>, FALSE, FALSE))
  <2>1. len <= len /\ SubSeq(rows, 1, len) = rows
    BY <1>1, SubSeqFull DEF len
  <2>2. Comes(text, AtStep(len))
    BY <1>1, <1>9, <2>1
  <2>. QED BY <1>6, <2>1, <2>2 DEF AtStep
<1>11. PICK n \in Nat : Turns(text)[n] = Reading(Len(text) + 1, rows, <<>>, <<>>, FALSE, FALSE)
  BY <1>10 DEF Comes
<1>12. Turns(text)[Len(text)] = Reading(Len(text) + 1, rows, <<>>, <<>>, FALSE, FALSE)
  <2>1. Turns(text)[n].at > Len(text)
    BY <1>7, <1>11 DEF Reading
  <2>. QED BY <1>7, <1>11, <2>1, ReadToTheEnd
<1>13. TokenizeCsv(text) = rows
  <2>1. /\ Turns(text)[Len(text)].records = rows /\ ~Turns(text)[Len(text)].saw
        /\ Turns(text)[Len(text)].field = <<>>
    BY <1>12 DEF Reading
  <2>. QED BY <2>1, TokenizedByTurns
<1>. QED BY <1>13 DEF text

-----------------------------------------------------------------------------
\* Workflows, the run.
(***************************************************************************)
(* A run is as far as its reports say: those of the rows that are over are *)
(* whole, and while the steps of a row are done the session agrees with    *)
(* the row in all that no script wrote.                                    *)
(***************************************************************************)
StepRows == [request : RequestPaths \cup {""}, expectError : BOOLEAN]
StepStatuses == {"passed", "failed", "skipped", "expected-error", "unexpected-success"}

ReadsItsRow == dataFile.kind # "none" =>
  \A c \in SaysOf(dataFile.records[iteration]) \ written : runSession[c] = Cell(dataFile.records[iteration], c)

\* A row's statuses, as far as they go.
Tells(statuses, steps) ==
  \A i \in DOMAIN statuses :
    /\ (statuses[i] = "skipped") = (\E j \in 1 .. i - 1 : statuses[j] = "failed")
    /\ statuses[i] \in {"failed", "passed"} => ~steps[i].expectError

WorkflowTypes ==
  /\ wfSteps \in Seq(StepRows) /\ wfFile \in Seq(StepRows) /\ running \in Seq(StepRows)
  /\ wfStage \in {"idle", "row", "steps", "done"} /\ iteration \in Nat
  /\ report \in Seq(Seq(StepStatuses)) /\ stepHalted \in BOOLEAN
  /\ dataFile \in DataFiles \cup {NoDataFile} /\ DOMAIN runSession = ToSet(Columns)

ReportsTell == \A r \in DOMAIN report : Tells(report[r], running) /\ Len(report[r]) <= Len(running)

AtARow == wfStage = "row" =>
  /\ iteration \in 1 .. Len(Rows) + 1 /\ Len(report) = iteration - 1
  /\ \A r \in DOMAIN report : Len(report[r]) = Len(running)

AmongSteps == wfStage = "steps" =>
  /\ iteration \in 1 .. Len(Rows) /\ Len(report) = iteration
  /\ \A r \in 1 .. iteration - 1 : Len(report[r]) = Len(running)
  /\ stepHalted = (\E i \in DOMAIN report[iteration] : report[iteration][i] = "failed")
  /\ ReadsItsRow

RunIsOver == wfStage = "done" =>
  /\ Len(report) = Len(Rows)
  /\ \A r \in DOMAIN report : Len(report[r]) = Len(running)

WorkflowInv == WorkflowTypes /\ ~misread /\ ReportsTell /\ AtARow /\ AmongSteps /\ RunIsOver

\* What a run reads and how far it is.
RunVars == <<wfStage, running, dataFile, iteration, report, stepHalted, runSession, written, misread>>

\* Nothing of a run changes with the editor, the file or the requests.
LEMMA RunStays ==
  ASSUME WorkflowInv, UNCHANGED RunVars, wfSteps' \in Seq(StepRows), wfFile' \in Seq(StepRows)
  PROVE  WorkflowInv'
<1>1. Rows' = Rows
  BY DEF RunVars, Rows
<1>2. ReadsItsRow' = ReadsItsRow
  BY DEF RunVars, ReadsItsRow, SaysOf
<1>3. WorkflowTypes' /\ ~misread'
  BY DEF WorkflowInv, WorkflowTypes, RunVars
<1>4. ReportsTell' = ReportsTell
  BY DEF ReportsTell, RunVars
<1>5. AtARow' = AtARow /\ RunIsOver' = RunIsOver
  BY <1>1 DEF AtARow, RunIsOver, RunVars
<1>6. AmongSteps' = AmongSteps
  BY <1>1, <1>2 DEF AmongSteps, RunVars
<1>. QED BY <1>3, <1>4, <1>5, <1>6 DEF WorkflowInv

\* The rows of the editor, without those that have no path.
LEMMA SavedRows ==
  ASSUME NEW steps \in Seq(StepRows)
  PROVE  FlattenSeq([i \in DOMAIN steps |-> IF steps[i].request = "" THEN <<>> ELSE <<steps[i]>>]) \in Seq(StepRows)
<1> DEFINE ss == [i \in DOMAIN steps |-> IF steps[i].request = "" THEN <<>> ELSE <<steps[i]>>]
<1>1. Len(steps) \in Nat /\ DOMAIN steps = 1 .. Len(steps) /\ \A i \in 1 .. Len(steps) : steps[i] \in StepRows
  BY LenProperties, ElementOfSeq
<1>2. ASSUME NEW s \in StepRows PROVE (IF s.request = "" THEN <<>> ELSE <<s>>) \in Seq(StepRows)
  <2>1. <<>> \in Seq(StepRows)
    BY EmptySeq
  <2>2. Append(<<>>, s) \in Seq(StepRows) /\ <<s>> = Append(<<>>, s)
    BY <1>2, <2>1, AppendProperties
  <2>. QED BY <2>1, <2>2
<1>3. \A i \in 1 .. Len(steps) : (IF steps[i].request = "" THEN <<>> ELSE <<steps[i]>>) \in Seq(StepRows)
  BY <1>1, <1>2
<1>4. ss = [i \in 1 .. Len(steps) |-> IF steps[i].request = "" THEN <<>> ELSE <<steps[i]>>]
  BY <1>1
<1> DEFINE S == Seq(StepRows)
<1> HIDE DEF S, ss
<1>5. ss \in Lists(StepRows)
  <2>1. \A i \in 1 .. Len(steps) : (IF steps[i].request = "" THEN <<>> ELSE <<steps[i]>>) \in S
    BY <1>3 DEF S
  <2>2. DOMAIN ss = 1 .. Len(steps) /\ ss = [i \in 1 .. Len(steps) |-> ss[i]] /\ \A i \in 1 .. Len(steps) : ss[i] \in S
    BY <1>4, <2>1
  <2>3. ss \in Seq(S)
    BY <1>1, <2>2, IsASeq
  <2>. QED BY <2>3 DEF Lists, S
<1>6. FlattenSeq(ss) \in Seq(StepRows)
  BY <1>5, FlatIsSeq
<1>. QED BY <1>6 DEF ss

\* The tab, the file and the requests change, and the run does not.
LEMMA FilesInvariant ==
  ASSUME WorkflowInv, EditSteps \/ SaveWorkflow \/ RemoveRequest \/ RenameRequest
  PROVE  WorkflowInv'
<1>1. wfSteps \in Seq(StepRows) /\ wfFile \in Seq(StepRows)
  BY DEF WorkflowInv, WorkflowTypes
<1>2. UNCHANGED RunVars
  BY DEF EditSteps, SaveWorkflow, RemoveRequest, RenameRequest, Stays, RunVars
<1>3. CASE EditSteps
  <2>1. CASE \E p \in RequestPaths : wfSteps' = Append(wfSteps, Step(p, FALSE))
    <3>1. PICK p \in RequestPaths : wfSteps' = Append(wfSteps, Step(p, FALSE))
      BY <2>1
    <3>2. Step(p, FALSE) \in StepRows
      BY DEF Step, StepRows
    <3>. QED BY <1>1, <1>2, <1>3, <3>1, <3>2, AppendProperties, RunStays DEF EditSteps
  <2>2. ASSUME NEW i \in DOMAIN wfSteps,
               \/ wfSteps' = [wfSteps EXCEPT ![i].request = ""]
               \/ wfSteps' = [wfSteps EXCEPT ![i].expectError = ~wfSteps[i].expectError]
        PROVE  wfSteps' \in Seq(StepRows)
    <3>1. i \in 1 .. Len(wfSteps) /\ wfSteps[i] \in StepRows
      BY <1>1, LenProperties, ElementOfSeq
    <3>2. /\ [wfSteps[i] EXCEPT !.request = ""] \in StepRows
          /\ [wfSteps[i] EXCEPT !.expectError = ~wfSteps[i].expectError] \in StepRows
      BY <3>1 DEF StepRows
    <3>3. \/ wfSteps' = [wfSteps EXCEPT ![i] = [wfSteps[i] EXCEPT !.request = ""]]
          \/ wfSteps' = [wfSteps EXCEPT ![i] = [wfSteps[i] EXCEPT !.expectError = ~wfSteps[i].expectError]]
      BY <2>2
    <3> DEFINE T == StepRows
    <3>4. wfSteps \in Seq(T) /\ \A e \in T : [wfSteps EXCEPT ![i] = e] \in Seq(T)
      <4> HIDE DEF T
      <4>1. wfSteps \in Seq(T)
        BY <1>1 DEF T
      <4>. QED BY <3>1, <4>1, ExceptSeq
    <3>. QED BY <3>2, <3>3, <3>4
  <2>3. ASSUME NEW i \in DOMAIN wfSteps, wfSteps' = RemoveAt(wfSteps, i)
        PROVE  wfSteps' \in Seq(StepRows)
    <3>1. i \in 1 .. Len(wfSteps) /\ Len(wfSteps) \in Nat /\ \A k \in 1 .. Len(wfSteps) : wfSteps[k] \in StepRows
      BY <1>1, LenProperties, ElementOfSeq
    <3>2. SubSeq(wfSteps, 1, i - 1) \in Seq(StepRows) /\ SubSeq(wfSteps, i + 1, Len(wfSteps)) \in Seq(StepRows)
      BY <3>1, SubSeqProperties
    <3>. QED BY <2>3, <3>2, ConcatProperties DEF RemoveAt
  <2>4. wfFile' = wfFile
    BY <1>3 DEF EditSteps
  <2>5. wfSteps' \in Seq(StepRows) => WorkflowInv'
    BY <1>1, <1>2, <2>4, RunStays
  <2>. QED BY <1>3, <2>1, <2>2, <2>3, <2>5 DEF EditSteps
<1>4. CASE SaveWorkflow
  <2>1. wfFile' \in Seq(StepRows) /\ wfSteps' = wfSteps
    BY <1>1, <1>4, SavedRows DEF SaveWorkflow
  <2>. QED BY <1>1, <1>2, <2>1, RunStays
<1>5. CASE RemoveRequest
  BY <1>1, <1>2, <1>5, RunStays DEF RemoveRequest
<1>6. CASE RenameRequest
  <2>1. PICK p \in requests, q \in RequestPaths \ requests :
          wfFile' = [i \in DOMAIN wfFile |->
                      IF wfFile[i].request = p THEN [wfFile[i] EXCEPT !.request = q] ELSE wfFile[i]]
    BY <1>6 DEF RenameRequest
  <2>2. Len(wfFile) \in Nat /\ DOMAIN wfFile = 1 .. Len(wfFile) /\ \A k \in 1 .. Len(wfFile) : wfFile[k] \in StepRows
    BY <1>1, LenProperties, ElementOfSeq
  <2>3. \A s \in StepRows : (IF s.request = p THEN [s EXCEPT !.request = q] ELSE s) \in StepRows
    BY DEF StepRows
  <2>4. wfFile' = [i \in 1 .. Len(wfFile) |->
                    IF wfFile[i].request = p THEN [wfFile[i] EXCEPT !.request = q] ELSE wfFile[i]]
    BY <2>1, <2>2
  <2>5. wfFile' \in Seq(StepRows)
    BY <2>2, <2>3, <2>4, IsASeq
  <2>. QED BY <1>1, <1>2, <1>6, <2>5, RunStays DEF RenameRequest
<1>. QED BY <1>3, <1>4, <1>5, <1>6

\* Two elements are a sequence of them.
LEMMA PairIsSeq == ASSUME NEW S, NEW a \in S, NEW b \in S PROVE <<a, b>> \in Seq(S)
<1>1. <<>> \in Seq(S)
  BY EmptySeq
<1>2. Append(<<>>, a) \in Seq(S) /\ <<a>> = Append(<<>>, a)
  BY <1>1, AppendProperties
<1>3. Append(<<a>>, b) \in Seq(S) /\ <<a, b>> = Append(<<a>>, b)
  BY <1>2, AppendProperties
<1>. QED BY <1>3

\* The fields the property writes are fields a file can have.
LEMMA WrittenCells == FieldTexts \subseteq CellTexts
<1>1. /\ <<>> \in FileTexts /\ \A k, l \in Characters : <<k>> \in FileTexts /\ <<k, l>> \in FileTexts
  BY EmptySeq, PairIsSeq DEF FileTexts, Characters
<1>2. \A k, l : Last(<<k>>) = k /\ Last(<<k, l>>) = l
  BY DEF Last
<1>. QED BY <1>1, <1>2 DEF FieldTexts, CellTexts, Characters

\* A data file of the run has records of one cell or two, and rows for them.
LEMMA RowsOfTheFile ==
  ASSUME dataFile \in DataFiles \cup {NoDataFile}
  PROVE  /\ Len(Rows) \in Nat
         /\ dataFile.kind # "none" => Len(Rows) = Len(dataFile.records)
         /\ dataFile.kind # "none" => \A r \in 1 .. Len(Rows) :
              /\ SaysOf(dataFile.records[r]) \subseteq ToSet(Columns)
              /\ \A c \in SaysOf(dataFile.records[r]) :
                   c \in DOMAIN Rows[r] /\ Rows[r][c] = Cell(dataFile.records[r], c)
<1>1. /\ dataFile \in [kind : {"none", "csv", "json"}, records : Seq(Seq(STRING))]
      /\ \A r \in DOMAIN dataFile.records : Len(dataFile.records[r]) \in 1 .. 2
  <2>1. CASE dataFile \in DataFiles
    BY <2>1, WorkflowAssumption
  <2>2. CASE dataFile = NoDataFile
    <3>1. <<>> \in Seq(Seq(STRING)) /\ DOMAIN <<>> = {}
      BY EmptySeq
    <3>. QED BY <2>2, <3>1 DEF NoDataFile
  <2>. QED BY <2>1, <2>2
<1> DEFINE rowsRead == dataFile.records
           len == Len(rowsRead)
<1>2. len \in Nat /\ DOMAIN rowsRead = 1 .. len /\ \A r \in 1 .. len : rowsRead[r] \in Seq(STRING)
  <2>1. rowsRead \in Seq(Seq(STRING))
    BY <1>1
  <2>. QED BY <2>1, LenProperties, ElementOfSeq
<1>3. \A r \in 1 .. len : DOMAIN rowsRead[r] \in {1 .. 1, 1 .. 2}
  <2>1. ASSUME NEW r \in 1 .. len PROVE DOMAIN rowsRead[r] \in {1 .. 1, 1 .. 2}
    <3>1. DOMAIN rowsRead[r] = 1 .. Len(rowsRead[r]) /\ Len(rowsRead[r]) \in 1 .. 2
      BY <1>1, <1>2, LenProperties
    <3>2. Len(rowsRead[r]) = 1 \/ Len(rowsRead[r]) = 2
      BY <3>1
    <3>. QED BY <3>1, <3>2
  <2>. QED BY <2>1
<1>4. /\ ToSet(Columns) = {"k1", "k2"} /\ Columns[1] = "k1" /\ Columns[2] = "k2"
      /\ DOMAIN Columns = 1 .. 2 /\ 1 .. 1 = {1} /\ 1 .. 2 = {1, 2}
  BY DEF Columns, ToSet
<1>5. ASSUME NEW fields, DOMAIN fields \in {1 .. 1, 1 .. 2}
      PROVE  /\ \A c \in {"k1", "k2"} : c \in DOMAIN CsvRow(fields) /\ CsvRow(fields)[c] = Cell(fields, c)
             /\ {Columns[i] : i \in DOMAIN fields} \subseteq {"k1", "k2"}
             /\ \A c \in {Columns[i] : i \in DOMAIN fields} :
                  c \in DOMAIN JsonRow(fields) /\ JsonRow(fields)[c] = Cell(fields, c)
  <2>1. (CHOOSE k \in DOMAIN Columns : Columns[k] = "k1") = 1 /\ (CHOOSE k \in DOMAIN Columns : Columns[k] = "k2") = 2
    BY <1>4
  <2>2. /\ Cell(fields, "k1") = fields[1]
        /\ Cell(fields, "k2") = IF 2 \in DOMAIN fields THEN fields[2] ELSE ""
    <3>1. (CHOOSE i \in DOMAIN fields : Columns[i] = "k1") = 1 /\ 1 \in DOMAIN fields
      BY <1>4, <1>5
    <3>2. 2 \in DOMAIN fields => (CHOOSE i \in DOMAIN fields : Columns[i] = "k2") = 2
      BY <1>4, <1>5
    <3>3. 2 \notin DOMAIN fields => ~\E i \in DOMAIN fields : Columns[i] = "k2"
      BY <1>4, <1>5
    <3>. QED BY <1>4, <3>1, <3>2, <3>3 DEF Cell
  <2>3. /\ DOMAIN CsvRow(fields) = {"k1", "k2"} /\ CsvRow(fields)["k1"] = fields[1]
        /\ CsvRow(fields)["k2"] = IF 2 \in DOMAIN fields THEN fields[2] ELSE ""
    <3>1. \A c \in {"k1", "k2"} : CsvRow(fields)[c] =
            LET i == CHOOSE k \in DOMAIN Columns : Columns[k] = c
            IN IF i \in DOMAIN fields THEN fields[i] ELSE ""
      BY <1>4 DEF CsvRow
    <3>2. DOMAIN CsvRow(fields) = {"k1", "k2"}
      BY <1>4 DEF CsvRow
    <3>3. 1 \in DOMAIN fields
      BY <1>5
    <3>. QED BY <2>1, <3>1, <3>2, <3>3
  <2>4. /\ {Columns[i] : i \in DOMAIN fields} = IF 2 \in DOMAIN fields THEN {"k1", "k2"} ELSE {"k1"}
    BY <1>4, <1>5
  <2>5. /\ DOMAIN JsonRow(fields) = {Columns[i] : i \in DOMAIN fields}
        /\ JsonRow(fields)["k1"] = fields[1]
        /\ 2 \in DOMAIN fields => JsonRow(fields)["k2"] = fields[2]
    BY <2>1, <2>4 DEF JsonRow
  <2>. QED BY <2>2, <2>3, <2>4, <2>5
<1>6. CASE dataFile.kind = "none"
  <2>1. Rows = <<[c \in {} |-> ""]>>
    BY <1>6 DEF Rows
  <2>. QED BY <1>6, <2>1
<1>7. CASE dataFile.kind = "csv"
  <2>1. Rows = [r \in 1 .. len |-> CsvRow(rowsRead[r])]
    BY <1>2, <1>7 DEF Rows
  <2>2. Len(Rows) = len /\ \A r \in 1 .. len : Rows[r] = CsvRow(rowsRead[r])
    BY <1>2, <2>1
  <2>3. \A r \in 1 .. len : SaysOf(rowsRead[r]) = {"k1", "k2"}
    BY <1>4, <1>7 DEF SaysOf
  <2>4. ASSUME NEW r \in 1 .. len
        PROVE  /\ SaysOf(rowsRead[r]) \subseteq ToSet(Columns)
               /\ \A c \in SaysOf(rowsRead[r]) : c \in DOMAIN Rows[r] /\ Rows[r][c] = Cell(rowsRead[r], c)
    <3>1. DOMAIN rowsRead[r] \in {1 .. 1, 1 .. 2} /\ Rows[r] = CsvRow(rowsRead[r]) /\ SaysOf(rowsRead[r]) = {"k1", "k2"}
      BY <1>3, <2>2, <2>3
    <3>. QED BY <1>4, <1>5, <3>1
  <2>. QED BY <1>2, <1>7, <2>2, <2>4
<1>8. CASE dataFile.kind = "json"
  <2>1. Rows = [r \in 1 .. len |-> JsonRow(rowsRead[r])]
    BY <1>2, <1>8 DEF Rows
  <2>2. Len(Rows) = len /\ \A r \in 1 .. len : Rows[r] = JsonRow(rowsRead[r])
    BY <1>2, <2>1
  <2>3. \A r \in 1 .. len : SaysOf(rowsRead[r]) = {Columns[i] : i \in DOMAIN rowsRead[r]}
    BY <1>8 DEF SaysOf
  <2>4. ASSUME NEW r \in 1 .. len
        PROVE  /\ SaysOf(rowsRead[r]) \subseteq ToSet(Columns)
               /\ \A c \in SaysOf(rowsRead[r]) : c \in DOMAIN Rows[r] /\ Rows[r][c] = Cell(rowsRead[r], c)
    <3>1. /\ DOMAIN rowsRead[r] \in {1 .. 1, 1 .. 2} /\ Rows[r] = JsonRow(rowsRead[r])
          /\ SaysOf(rowsRead[r]) = {Columns[i] : i \in DOMAIN rowsRead[r]}
      BY <1>3, <2>2, <2>3
    <3> DEFINE R == rowsRead[r]
    <3> HIDE DEF R
    <3>2. DOMAIN R \in {1 .. 1, 1 .. 2}
      BY <3>1 DEF R
    <3>3. /\ {Columns[i] : i \in DOMAIN R} \subseteq {"k1", "k2"}
          /\ \A c \in {Columns[i] : i \in DOMAIN R} : c \in DOMAIN JsonRow(R) /\ JsonRow(R)[c] = Cell(R, c)
      BY <1>5, <3>2
    <3>. QED BY <1>4, <3>1, <3>3 DEF R
  <2>. QED BY <1>2, <1>8, <2>2, <2>4
<1>. QED BY <1>1, <1>6, <1>7, <1>8

\* A run begins.
LEMMA RunBegins == ASSUME WorkflowInv, RunWorkflowFile PROVE WorkflowInv'
<1>1. /\ running' = wfFile /\ dataFile' \in DataFiles /\ iteration' = 1 /\ wfStage' = "row" /\ report' = <<>>
      /\ UNCHANGED <<wfSteps, wfFile, stepHalted, runSession, written, misread>>
  BY DEF RunWorkflowFile
<1>2. Len(Rows') \in Nat
  <2>1. dataFile' \in DataFiles \cup {NoDataFile}
    BY <1>1
  <2>2. (dataFile \in DataFiles \cup {NoDataFile})' => (Len(Rows) \in Nat)'
    BY RowsOfTheFile, PTL
  <2>. QED BY <2>1, <2>2
<1>3. report' \in Seq(Seq(StepStatuses)) /\ DOMAIN report' = {} /\ Len(report') = 0
  BY <1>1, EmptySeq
<1>4. iteration' \in 1 .. Len(Rows') + 1 /\ iteration' \in Nat /\ Len(report') = iteration' - 1
  BY <1>1, <1>2, <1>3
<1>5. WorkflowTypes' /\ ~misread'
  BY <1>1, <1>3, <1>4 DEF WorkflowInv, WorkflowTypes
<1>6. ReportsTell' /\ AtARow' /\ AmongSteps' /\ RunIsOver'
  BY <1>1, <1>3, <1>4 DEF ReportsTell, AtARow, AmongSteps, RunIsOver
<1>. QED BY <1>5, <1>6 DEF WorkflowInv

\* A row is loaded, or there is none left.
LEMMA RowIsLoaded == ASSUME WorkflowInv, LoadRow PROVE WorkflowInv'
<1>1. /\ wfStage = "row" /\ iteration \in 1 .. Len(Rows) + 1 /\ Len(report) = iteration - 1
      /\ iteration \in Nat
      /\ \A r \in DOMAIN report : Len(report[r]) = Len(running)
      /\ UNCHANGED <<wfSteps, wfFile, running, dataFile, iteration, misread>>
      /\ dataFile \in DataFiles \cup {NoDataFile}
  BY DEF WorkflowInv, WorkflowTypes, AtARow, LoadRow
<1>2. Rows' = Rows /\ Len(Rows) \in Nat
  BY <1>1, RowsOfTheFile DEF Rows
<1>3. CASE iteration > Len(Rows)
  <2>1. wfStage' = "done" /\ UNCHANGED <<runSession, report, stepHalted, written>>
    BY <1>3 DEF LoadRow
  <2>2. Len(report) = Len(Rows)
    <3> DEFINE n == Len(report) m == Len(Rows)
    <3> HIDE DEF n, m
    <3>1. m \in Nat /\ iteration \in 1 .. m + 1 /\ n = iteration - 1 /\ iteration > m
      BY <1>1, <1>2, <1>3 DEF n, m
    <3>2. n = m
      BY <3>1
    <3>. QED BY <3>2 DEF n, m
  <2>3. WorkflowTypes' /\ ~misread'
    BY <1>1, <2>1 DEF WorkflowInv, WorkflowTypes
  <2>4. ReportsTell'
    BY <1>1, <2>1 DEF WorkflowInv, ReportsTell
  <2>5. AtARow' /\ AmongSteps' /\ RunIsOver'
    BY <1>1, <1>2, <2>1, <2>2 DEF AtARow, AmongSteps, RunIsOver
  <2>. QED BY <2>3, <2>4, <2>5 DEF WorkflowInv
<1>4. CASE ~(iteration > Len(Rows))
  <2>1. /\ runSession' = [c \in DOMAIN runSession |->
                           IF c \in DOMAIN Rows[iteration] THEN Rows[iteration][c] ELSE runSession[c]]
        /\ wfStage' = "steps" /\ report' = Append(report, <<>>)
        /\ stepHalted' = FALSE /\ written' = {}
    BY <1>4 DEF LoadRow
  <2>2. iteration \in 1 .. Len(Rows)
    <3> DEFINE m == Len(Rows)
    <3> HIDE DEF m
    <3>1. m \in Nat /\ iteration \in 1 .. m + 1 /\ ~(iteration > m)
      BY <1>1, <1>2, <1>4 DEF m
    <3>2. iteration \in 1 .. m
      BY <3>1
    <3>. QED BY <3>2 DEF m
  <2>3. report \in Seq(Seq(StepStatuses)) /\ <<>> \in Seq(StepStatuses) /\ Len(<<>>) = 0 /\ DOMAIN <<>> = {}
    BY EmptySeq DEF WorkflowInv, WorkflowTypes
  <2>4. /\ report' \in Seq(Seq(StepStatuses)) /\ Len(report') = Len(report) + 1
        /\ \A r \in 1 .. Len(report) : report'[r] = report[r]
        /\ report'[Len(report) + 1] = <<>>
    BY <2>1, <2>3, AppendProperties
  <2>5. /\ DOMAIN report = 1 .. iteration - 1 /\ DOMAIN report' = 1 .. iteration /\ Len(report') = iteration
        /\ report'[iteration] = <<>> /\ \A r \in 1 .. iteration - 1 : report'[r] = report[r]
    <3>1. DOMAIN report = 1 .. Len(report) /\ DOMAIN report' = 1 .. Len(report')
      BY <2>3, <2>4, LenProperties
    <3>2. Len(report) + 1 = iteration
      BY <1>1
    <3>. QED BY <1>1, <2>4, <3>1, <3>2
  <2>6. ReadsItsRow'
    <3>1. SUFFICES ASSUME dataFile.kind # "none", NEW c \in SaysOf(dataFile.records[iteration])
                   PROVE  runSession'[c] = Cell(dataFile.records[iteration], c)
      BY <1>1 DEF ReadsItsRow, SaysOf
    <3>2. /\ c \in ToSet(Columns) /\ c \in DOMAIN Rows[iteration]
          /\ Rows[iteration][c] = Cell(dataFile.records[iteration], c)
      BY <1>1, <2>2, <3>1, RowsOfTheFile
    <3>3. c \in DOMAIN runSession
      BY <3>2 DEF WorkflowInv, WorkflowTypes
    <3>. QED BY <2>1, <3>2, <3>3
  <2>7. ReportsTell'
    <3>1. ASSUME NEW r \in DOMAIN report' PROVE Tells(report'[r], running) /\ Len(report'[r]) <= Len(running)
      <4>1. CASE r = iteration
        <5>1. Len(running) \in Nat
          BY LenProperties DEF WorkflowInv, WorkflowTypes
        <5>. QED BY <2>3, <2>5, <4>1, <5>1 DEF Tells
      <4>2. CASE r # iteration
        <5>1. r \in DOMAIN report /\ report'[r] = report[r]
          BY <1>1, <2>5, <4>2
        <5>. QED BY <5>1 DEF WorkflowInv, ReportsTell
      <4>. QED BY <4>1, <4>2
    <3>. QED BY <1>1, <3>1 DEF ReportsTell
  <2>8. \A r \in 1 .. iteration - 1 : Len(report'[r]) = Len(running)
    BY <1>1, <2>5
  <2>9. stepHalted' = (\E i \in DOMAIN report'[iteration] : report'[iteration][i] = "failed")
    BY <2>1, <2>3, <2>5
  <2>10. WorkflowTypes' /\ ~misread'
    BY <1>1, <2>1, <2>4 DEF WorkflowInv, WorkflowTypes
  <2>11. AmongSteps'
    BY <1>1, <1>2, <2>1, <2>2, <2>5, <2>6, <2>8, <2>9 DEF AmongSteps
  <2>12. AtARow' /\ RunIsOver'
    BY <2>1 DEF AtARow, RunIsOver
  <2>. QED BY <2>7, <2>10, <2>11, <2>12 DEF WorkflowInv
<1>. QED BY <1>3, <1>4

\* A step is done or skipped: the row's report says what became of it.
LEMMA StepIsDone == ASSUME WorkflowInv, ExecuteStep PROVE WorkflowInv'
<1> DEFINE row == report[iteration]
           n == Len(row)
           step == running[n + 1]
<1>1. /\ wfStage = "steps" /\ n < Len(running)
      /\ UNCHANGED <<wfSteps, wfFile, wfStage, running, dataFile, iteration>>
      /\ WorkflowTypes /\ ReportsTell /\ AmongSteps /\ ~misread
  BY DEF ExecuteStep, StepsDone, WorkflowInv
<1>2. Rows' = Rows
  BY <1>1 DEF Rows
<1>3. /\ iteration \in 1 .. Len(Rows) /\ Len(report) = iteration /\ iteration \in Nat
      /\ report \in Seq(Seq(StepStatuses)) /\ ReadsItsRow
      /\ \A r \in 1 .. iteration - 1 : Len(report[r]) = Len(running)
      /\ stepHalted = (\E i \in DOMAIN row : row[i] = "failed")
  BY <1>1 DEF AmongSteps, WorkflowTypes
<1>4. /\ DOMAIN report = 1 .. iteration /\ iteration \in 1 .. iteration
      /\ row \in Seq(StepStatuses) /\ n \in Nat /\ DOMAIN row = 1 .. n
      /\ \A i \in 1 .. n : row[i] \in StepStatuses
      /\ Len(running) \in Nat
  <2>1. iteration >= 1
    BY <1>3
  <2>2. DOMAIN report = 1 .. iteration /\ iteration \in 1 .. iteration
    BY <1>3, <2>1, LenProperties
  <2>3. row \in Seq(StepStatuses)
    BY <1>3, <2>2, ElementOfSeq
  <2>. QED BY <1>1, <2>2, <2>3, LenProperties, ElementOfSeq DEF WorkflowTypes
<1>5. PICK s \in StepStatuses :
        /\ report' = [report EXCEPT ![iteration] = Append(row, s)]
        /\ (s = "skipped") = stepHalted
        /\ s \in {"failed", "passed"} => ~step.expectError
        /\ stepHalted' = (stepHalted \/ s = "failed") /\ stepHalted' \in BOOLEAN
  <2>1. CASE stepHalted
    <3>1. report' = [report EXCEPT ![iteration] = Append(row, "skipped")] /\ UNCHANGED stepHalted
      BY <2>1 DEF ExecuteStep
    <3>2. "skipped" \in StepStatuses /\ stepHalted \in BOOLEAN
      BY <1>1 DEF StepStatuses, WorkflowTypes
    <3>. QED BY <2>1, <3>1, <3>2
  <2>2. CASE ~stepHalted
    <3>1. PICK hadError : /\ report' = [report EXCEPT ![iteration] = Append(row, Status(step, hadError))]
                         /\ stepHalted' = (Status(step, hadError) = "failed")
      BY <2>2 DEF ExecuteStep, StepsDone
    <3> DEFINE s == Status(step, hadError)
    <3>2. s \in StepStatuses /\ s # "skipped" /\ (s \in {"failed", "passed"} => ~step.expectError)
      BY DEF Status, StepStatuses
    <3> HIDE DEF s
    <3>3. report' = [report EXCEPT ![iteration] = Append(row, s)] /\ stepHalted' = (s = "failed")
      BY <3>1 DEF s
    <3>4. stepHalted = FALSE
      BY <1>1, <2>2 DEF WorkflowTypes
    <3>5. (s = "skipped") = stepHalted /\ stepHalted' = (stepHalted \/ s = "failed") /\ stepHalted' \in BOOLEAN
      BY <3>2, <3>3, <3>4
    <3> HIDE DEF row, step
    <3>. QED BY <3>2, <3>3, <3>5
  <2>. QED BY <1>1, <2>1, <2>2 DEF WorkflowTypes
<1> DEFINE longer == Append(row, s)
<1>6. /\ longer \in Seq(StepStatuses) /\ Len(longer) = n + 1 /\ DOMAIN longer = 1 .. n + 1
      /\ \A i \in 1 .. n : longer[i] = row[i]
      /\ longer[n + 1] = s
  <2>1. longer \in Seq(StepStatuses) /\ Len(longer) = n + 1 /\ (\A i \in 1 .. n : longer[i] = row[i]) /\ longer[n + 1] = s
    BY <1>4, AppendProperties
  <2>. QED BY <2>1, LenProperties
<1>7. /\ report' \in Seq(Seq(StepStatuses)) /\ Len(report') = iteration /\ DOMAIN report' = 1 .. iteration
      /\ report'[iteration] = longer
      /\ \A r \in 1 .. iteration - 1 : report'[r] = report[r]
  <2> DEFINE T == Seq(StepStatuses)
  <2> HIDE DEF T, longer, row
  <2>1. report \in Seq(T) /\ longer \in T
    BY <1>3, <1>6 DEF T
  <2>2. report' = [report EXCEPT ![iteration] = longer]
    BY <1>5 DEF longer
  <2>3. report' \in Seq(T) /\ Len(report') = Len(report)
    BY <1>3, <1>4, <2>1, <2>2, ExceptSeq
  <2>4. report'[iteration] = longer /\ \A r \in 1 .. iteration - 1 : report'[r] = report[r]
    BY <1>3, <1>4, <2>2
  <2>5. DOMAIN report' = 1 .. iteration
    BY <1>4, <2>2
  <2>. QED BY <1>3, <2>3, <2>4, <2>5 DEF T
<1> HIDE DEF longer
<1>8. Tells(longer, running)
  <2>1. Tells(row, running)
    BY <1>1, <1>4 DEF ReportsTell
  <2> SUFFICES ASSUME NEW i \in 1 .. n + 1
      PROVE /\ (longer[i] = "skipped") = (\E j \in 1 .. i - 1 : longer[j] = "failed")
            /\ longer[i] \in {"failed", "passed"} => ~running[i].expectError
    BY <1>6 DEF Tells
  <2>2. CASE i \in 1 .. n
    <3>1. \A j \in 1 .. i - 1 : longer[j] = row[j]
      BY <1>4, <1>6, <2>2
    <3>2. /\ (row[i] = "skipped") = (\E j \in 1 .. i - 1 : row[j] = "failed")
          /\ row[i] \in {"failed", "passed"} => ~running[i].expectError
      BY <1>4, <2>1, <2>2 DEF Tells
    <3> HIDE DEF row
    <3>. QED BY <1>6, <2>2, <3>1, <3>2
  <2>3. CASE i = n + 1
    <3>1. i - 1 = n
      BY <1>4, <2>3
    <3>2. (\E j \in 1 .. n : longer[j] = "failed") = stepHalted
      <4> HIDE DEF row, n
      <4>. QED BY <1>3, <1>4, <1>6
    <3>. QED BY <1>5, <1>6, <2>3, <3>1, <3>2
  <2> HIDE DEF row, n
  <2>4. i \in 1 .. n \/ i = n + 1
    BY <1>4
  <2>. QED BY <2>2, <2>3, <2>4
<1>9. ReportsTell'
  <2>1. ASSUME NEW r \in 1 .. iteration PROVE Tells(report'[r], running) /\ Len(report'[r]) <= Len(running)
    <3>1. CASE r = iteration
      <4>1. n + 1 <= Len(running)
        BY <1>1, <1>4
      <4>. QED BY <1>6, <1>7, <1>8, <3>1, <4>1
    <3>2. CASE r # iteration
      <4>1. r \in 1 .. iteration - 1
        BY <1>3, <3>2
      <4>. QED BY <1>1, <1>4, <1>7, <4>1 DEF ReportsTell
    <3>. QED BY <3>1, <3>2
  <2>. QED BY <1>1, <1>7, <2>1 DEF ReportsTell
<1>10. stepHalted' = (\E i \in DOMAIN report'[iteration] : report'[iteration][i] = "failed")
  <2> HIDE DEF row, n
  <2>1. stepHalted = (\E i \in 1 .. n : longer[i] = "failed")
    BY <1>3, <1>4, <1>6
  <2>2. (\E i \in 1 .. n + 1 : longer[i] = "failed") = ((\E i \in 1 .. n : longer[i] = "failed") \/ longer[n + 1] = "failed")
    <3>1. \A i : i \in 1 .. n + 1 <=> i \in 1 .. n \/ i = n + 1
      BY <1>4
    <3>. QED BY <3>1
  <2>. QED BY <1>5, <1>6, <1>7, <2>1, <2>2
<1>11. ~misread' /\ ReadsItsRow' /\ DOMAIN runSession' = ToSet(Columns)
  <2>1. DOMAIN runSession = ToSet(Columns) /\ ToSet(Columns) = {"k1", "k2"}
    BY <1>1 DEF WorkflowTypes, Columns, ToSet
  <2>2. ~Misreads
    BY <1>3 DEF Misreads, ReadsItsRow
  <2>3. misread' = misread \/ misread' = (misread \/ Misreads)
    BY DEF ExecuteStep
  <2>4. \/ UNCHANGED <<runSession, written>>
        \/ runSession' = [runSession EXCEPT !["k2"] = "script"] /\ written' = written \cup {"k2"}
    BY DEF ExecuteStep
  <2> DEFINE fields == dataFile.records[iteration]
  <2> HIDE DEF fields
  <2>5. dataFile.kind # "none" => \A c \in SaysOf(fields) \ written : runSession[c] = Cell(fields, c)
    BY <1>3 DEF ReadsItsRow, fields
  <2>6. DOMAIN runSession' = ToSet(Columns)
    BY <2>1, <2>4
  <2>7. dataFile.kind # "none" => \A c \in SaysOf(fields) \ written' : runSession'[c] = Cell(fields, c)
    <3>1. CASE UNCHANGED <<runSession, written>>
      BY <2>5, <3>1
    <3>2. CASE runSession' = [runSession EXCEPT !["k2"] = "script"] /\ written' = written \cup {"k2"}
      <4>1. \A c : c \notin written' => c # "k2" /\ c \notin written
        BY <3>2
      <4>2. \A c : c # "k2" => runSession'[c] = runSession[c] \/ c \notin ToSet(Columns)
        BY <2>1, <3>2
      <4>3. dataFile.kind # "none" => SaysOf(fields) \subseteq ToSet(Columns)
        BY <1>1, <1>3, RowsOfTheFile DEF WorkflowTypes, fields
      <4>. QED BY <2>5, <4>1, <4>2, <4>3
    <3>. QED BY <2>4, <3>1, <3>2
  <2>8. ReadsItsRow'
    <3>1. \A x : SaysOf(x)' = SaysOf(x)
      BY <1>1 DEF SaysOf
    <3>. QED BY <1>1, <2>7, <3>1 DEF ReadsItsRow, SaysOf, fields
  <2>9. ~misread'
    BY <1>1, <2>2, <2>3
  <2>. QED BY <2>6, <2>8, <2>9
<1>12. WorkflowTypes'
  BY <1>1, <1>5, <1>7, <1>11 DEF WorkflowTypes
<1>13. AmongSteps'
  BY <1>1, <1>2, <1>3, <1>7, <1>10, <1>11 DEF AmongSteps
<1>14. AtARow' /\ RunIsOver'
  BY <1>1 DEF AtARow, RunIsOver
<1>. QED BY <1>9, <1>11, <1>12, <1>13, <1>14 DEF WorkflowInv

\* A row whose steps are done is over.
LEMMA RowIsOver == ASSUME WorkflowInv, NextRow PROVE WorkflowInv'
<1>1. /\ wfStage = "steps" /\ Len(report[iteration]) = Len(running) /\ iteration' = iteration + 1 /\ wfStage' = "row"
      /\ UNCHANGED <<wfSteps, wfFile, running, dataFile, report, stepHalted, runSession, written, misread>>
      /\ WorkflowTypes /\ ReportsTell /\ AmongSteps /\ ~misread
  BY DEF NextRow, StepsDone, WorkflowInv
<1>2. Rows' = Rows
  BY <1>1 DEF Rows
<1>3. /\ iteration \in 1 .. Len(Rows) /\ Len(report) = iteration /\ iteration \in Nat
      /\ \A r \in 1 .. iteration - 1 : Len(report[r]) = Len(running)
      /\ DOMAIN report = 1 .. iteration /\ Len(Rows) \in Nat
  BY <1>1, RowsOfTheFile, LenProperties DEF AmongSteps, WorkflowTypes
<1>4. \A r \in 1 .. iteration : Len(report[r]) = Len(running)
  <2>1. \A r \in 1 .. iteration : r \in 1 .. iteration - 1 \/ r = iteration
    BY <1>3
  <2>. QED BY <1>1, <1>3, <2>1
<1>5. iteration + 1 \in 1 .. Len(Rows) + 1 /\ iteration + 1 \in Nat /\ (iteration + 1) - 1 = iteration
  BY <1>3
<1>6. WorkflowTypes'
  BY <1>1, <1>5 DEF WorkflowTypes
<1>7. ReportsTell'
  BY <1>1 DEF ReportsTell
<1>8. AtARow' /\ AmongSteps' /\ RunIsOver'
  BY <1>1, <1>2, <1>3, <1>4, <1>5 DEF AtARow, AmongSteps, RunIsOver
<1>. QED BY <1>1, <1>6, <1>7, <1>8 DEF WorkflowInv

\* A run does the steps the file had when it began, whatever is edited, renamed or
\* deleted meanwhile, reports each of them, skips what stands behind the first failure
\* and reads its own row; a CSV file reads back as it was written.
THEOREM RunsAreTold == WorkflowSpec => []WorkflowTellsTheRun
<1>1. WorkflowInit => WorkflowInv
  <2>1. SUFFICES ASSUME WorkflowInit PROVE WorkflowInv
    OBVIOUS
  <2>2. <<>> \in Seq(StepRows) /\ <<>> \in Seq(Seq(StepStatuses)) /\ DOMAIN <<>> = {}
    BY EmptySeq
  <2>3. WorkflowTypes
    BY <2>1, <2>2 DEF WorkflowInit, WorkflowTypes
  <2>4. ReportsTell /\ AtARow /\ AmongSteps /\ RunIsOver /\ ~misread
    BY <2>1, <2>2 DEF WorkflowInit, ReportsTell, AtARow, AmongSteps, RunIsOver
  <2>. QED BY <2>3, <2>4 DEF WorkflowInv
<1>2. WorkflowInv /\ [WorkflowNext]_workflowVars => WorkflowInv'
  <2>1. SUFFICES ASSUME WorkflowInv, [WorkflowNext]_workflowVars PROVE WorkflowInv'
    OBVIOUS
  <2>2. CASE UNCHANGED workflowVars
    <3>1. UNCHANGED RunVars /\ wfSteps' \in Seq(StepRows) /\ wfFile' \in Seq(StepRows)
      BY <2>1, <2>2 DEF workflowVars, RunVars, WorkflowInv, WorkflowTypes
    <3>. QED BY <2>1, <3>1, RunStays
  <2>. QED BY <2>1, <2>2, FilesInvariant, RunBegins, RowIsLoaded, StepIsDone, RowIsOver DEF WorkflowNext
<1>3. WorkflowInv => WorkflowTellsTheRun
  <2>1. SUFFICES ASSUME WorkflowInv PROVE WorkflowTellsTheRun
    OBVIOUS
  <2>2. wfStage = "done" =>
          /\ Len(report) = Len(Rows)
          /\ \A r \in DOMAIN report :
               /\ Len(report[r]) = Len(running)
               /\ \A i \in DOMAIN report[r] :
                    /\ (report[r][i] = "skipped") = (\E j \in 1 .. i - 1 : report[r][j] = "failed")
                    /\ report[r][i] \in {"failed", "passed"} => ~running[i].expectError
    BY <2>1 DEF WorkflowInv, RunIsOver, ReportsTell, Tells
  <2>3. ASSUME NEW a \in FieldTexts, NEW b \in FieldTexts, NEW ending \in {<<"n">>, <<"r", "n">>}
        PROVE  TokenizeCsv(CsvText(<<<<a, b>>, <<b, a>>>>, ending)) = <<<<a, b>>, <<b, a>>>>
    <3> DEFINE rows == <<<<a, b>>, <<b, a>>>>
               T == CellTexts \X CellTexts
    <3>1. a \in CellTexts /\ b \in CellTexts
      BY WrittenCells
    <3>2. <<a, b>> \in T /\ <<b, a>> \in T
      BY <3>1
    <3> HIDE DEF T
    <3>3. rows \in Seq(T)
      BY <3>2, PairIsSeq
    <3> HIDE DEF rows
    <3>4. ending \in Endings
      BY DEF Endings
    <3>5. TokenizeCsv(CsvText(rows, ending)) = rows
      BY <3>3, <3>4, FileIsRead DEF T
    <3>. QED BY <3>5 DEF rows
  <2>. QED BY <2>1, <2>2, <2>3 DEF WorkflowTellsTheRun, WorkflowInv
<1>. QED BY <1>1, <1>2, <1>3, PTL DEF WorkflowSpec

-----------------------------------------------------------------------------
(***************************************************************************)
(* Variables.  A text is a list of pieces; a value of the file, of the     *)
(* session or of the environment is a text.                                *)
(***************************************************************************)
Pieces == [name : Names \cup {""}, op : {"", "-", "x", "s", "e", "def"}]
Texts == Seq(Pieces)

\* Functions from some of the names to texts.
IsScope(f) == DOMAIN f \subseteq Names /\ \A n \in DOMAIN f : f[n] \in Texts

Metas == [DOMAIN decls -> Texts]

VariablesInv ==
  /\ decls \in Metas /\ IsScope(decls) /\ IsFiniteSet(DOMAIN decls)
  /\ IsScope(session) /\ IsScope(env)
  /\ sidecars \in [1 .. Levels -> Sidecars]

\* The parts of a text, each as substitute leaves it.
Substituted(text, values) ==
  [i \in DOMAIN text |->
    IF text[i].name \in DOMAIN values THEN values[text[i].name]
    ELSE IF text[i].op = "-" /\ text[i].name # "" THEN <<Lit("def")>> ELSE <<text[i]>>]

\* A text with its references replaced is a text.
LEMMA SubstituteIsText ==
  ASSUME NEW text \in Texts, NEW values, IsScope(values)
  PROVE  Substitute(text, values) \in Texts
<1> DEFINE ss == Substituted(text, values)
           len == Len(text)
<1>1. len \in Nat /\ DOMAIN text = 1 .. len /\ \A i \in 1 .. len : text[i] \in Pieces
  BY LenProperties, ElementOfSeq DEF Texts
<1>2. \A p \in Pieces : <<p>> \in Texts
  <2>1. ASSUME NEW p \in Pieces PROVE <<p>> \in Texts
    <3>1. <<>> \in Seq(Pieces)
      BY EmptySeq
    <3>2. Append(<<>>, p) \in Seq(Pieces) /\ <<p>> = Append(<<>>, p)
      BY <3>1, AppendProperties
    <3>. QED BY <3>2 DEF Texts
  <2>. QED BY <2>1
<1>3. Lit("def") \in Pieces
  BY DEF Lit, Pieces
<1>4. /\ DOMAIN ss = 1 .. len /\ ss = [i \in 1 .. len |-> ss[i]]
      /\ \A i \in 1 .. len : ss[i] \in Texts
  BY <1>1, <1>2, <1>3 DEF Substituted, IsScope
<1>5. Substitute(text, values) = FlattenSeq(ss)
  BY DEF Substitute, Substituted
<1> HIDE DEF ss
<1>6. ss \in Seq(Texts)
  BY <1>1, <1>4, IsASeq
<1>. QED BY <1>5, <1>6, FlatIsSeq DEF Lists, Texts

\* What a text becomes depends on the names it refers to.
LEMMA SubstituteReadsItsRefs ==
  ASSUME NEW text, NEW v, NEW w, "" \notin DOMAIN v, "" \notin DOMAIN w,
         \A n \in VarRefs(text) : /\ n \in DOMAIN v <=> n \in DOMAIN w
                                  /\ n \in DOMAIN v => v[n] = w[n]
  PROVE  Substitute(text, v) = Substitute(text, w)
<1>1. ASSUME NEW i \in DOMAIN text
      PROVE  /\ text[i].name \in DOMAIN v <=> text[i].name \in DOMAIN w
             /\ text[i].name \in DOMAIN v => v[text[i].name] = w[text[i].name]
  <2>1. CASE text[i].name = ""
    BY <2>1
  <2>2. CASE text[i].name # ""
    <3>1. text[i].name \in VarRefs(text)
      BY <2>2 DEF VarRefs
    <3>. QED BY <3>1
  <2>. QED BY <2>1, <2>2
<1>2. Substituted(text, v) = Substituted(text, w)
  BY <1>1 DEF Substituted
<1>3. /\ Substitute(text, v) = FlattenSeq(Substituted(text, v))
      /\ Substitute(text, w) = FlattenSeq(Substituted(text, w))
  BY DEF Substitute, Substituted
<1>. QED BY <1>2, <1>3

\* What a pass looks a name up in.
LEMMA ScopeOfAPass ==
  ASSUME VariablesInv, NEW m \in Metas
  PROVE  /\ IsScope(Scope(m)) /\ "" \notin DOMAIN Scope(m)
         /\ \A n : n \in DOMAIN Scope(m) <=>
              (n \in DOMAIN decls /\ m[n] # <<>>) \/ n \in DOMAIN session \/ n \in DOMAIN env
         /\ \A n \in DOMAIN Scope(m) :
              Scope(m)[n] = IF n \in DOMAIN decls /\ m[n] # <<>> THEN m[n]
                            ELSE IF n \in DOMAIN session THEN session[n] ELSE env[n]
<1>1. DOMAIN m = DOMAIN decls /\ \A n \in DOMAIN decls : m[n] \in Texts
  BY DEF Metas
<1>2. /\ IsScope(session) /\ IsScope(env) /\ DOMAIN decls \subseteq Names
  BY DEF VariablesInv, IsScope
<1>3. /\ DOMAIN Base = DOMAIN session \cup DOMAIN env
      /\ \A n \in DOMAIN Base : Base[n] = IF n \in DOMAIN session THEN session[n] ELSE env[n]
  BY DEF Base, Over
<1>4. /\ DOMAIN NonBlank(m) = {n \in DOMAIN decls : m[n] # <<>>}
      /\ \A n \in DOMAIN NonBlank(m) : NonBlank(m)[n] = m[n]
  BY <1>1 DEF NonBlank
<1>5. /\ DOMAIN Scope(m) = DOMAIN NonBlank(m) \cup DOMAIN Base
      /\ \A n \in DOMAIN Scope(m) :
           Scope(m)[n] = IF n \in DOMAIN NonBlank(m) THEN NonBlank(m)[n] ELSE Base[n]
  BY DEF Scope, Over
<1>6. \A n : n \in DOMAIN Scope(m) <=>
              (n \in DOMAIN decls /\ m[n] # <<>>) \/ n \in DOMAIN session \/ n \in DOMAIN env
  BY <1>3, <1>4, <1>5
<1>7. \A n \in DOMAIN Scope(m) :
        Scope(m)[n] = IF n \in DOMAIN decls /\ m[n] # <<>> THEN m[n]
                      ELSE IF n \in DOMAIN session THEN session[n] ELSE env[n]
  BY <1>3, <1>4, <1>5
<1>8. IsScope(Scope(m))
  BY <1>1, <1>2, <1>6, <1>7 DEF IsScope
<1>. QED BY <1>6, <1>7, <1>8, VariablesAssumption DEF IsScope

\* A pass makes texts of texts.
LEMMA PassIsMeta ==
  ASSUME VariablesInv, NEW m \in Metas
  PROVE  Expand(m) \in Metas
<1>1. ASSUME NEW n \in DOMAIN decls PROVE Substitute(decls[n], Scope(m)) \in Texts
  <2>1. decls[n] \in Texts
    BY DEF VariablesInv, Metas
  <2>. QED BY <2>1, ScopeOfAPass, SubstituteIsText
<1>. QED BY <1>1 DEF Expand, Metas

\* The values after each pass.
Passed ==
  LET after[k \in Nat] == IF k = 0 THEN decls ELSE Expand(after[k - 1])
  IN after

\* The passes over the file follow one another.
LEMMA PassesFollow ==
  ASSUME VariablesInv
  PROVE  /\ Passed \in [Nat -> Metas] /\ Passed[0] = decls
         /\ \A k \in Nat : Passed[k + 1] = Expand(Passed[k])
<1> DEFINE g == [m \in Metas |-> Expand(m)]
<1>1. decls \in Metas /\ g \in [Metas -> Metas]
  BY PassIsMeta DEF VariablesInv
<1>2. PICK f \in [Nat -> Metas] : f = [k \in Nat |-> IF k = 0 THEN decls ELSE g[f[k - 1]]]
  <2> HIDE DEF g
  <2>. QED BY <1>1, Recursion
<1>3. f = [k \in Nat |-> IF k = 0 THEN decls ELSE Expand(f[k - 1])]
  <2>1. ASSUME NEW k \in Nat, k # 0 PROVE g[f[k - 1]] = Expand(f[k - 1])
    <3>1. k - 1 \in Nat
      BY <2>1
    <3>. QED BY <3>1
  <2>. QED BY <1>2, <2>1
<1> DEFINE after == Passed
<1>4. after = [k \in Nat |-> IF k = 0 THEN decls ELSE Expand(after[k - 1])]
  BY <1>3 DEF Passed
<1> HIDE DEF after
<1>5. after[0] = decls /\ \A k \in Nat : after[k + 1] = Expand(after[k])
  <2>1. ASSUME NEW k \in Nat PROVE after[k + 1] = Expand(after[k])
    <3>1. k + 1 \in Nat /\ k + 1 # 0 /\ (k + 1) - 1 = k
      OBVIOUS
    <3>. QED BY <1>4, <3>1
  <2>. QED BY <1>4, <2>1
<1>6. \A k \in Nat : after[k] \in Metas
  <2> DEFINE P == {k \in Nat : after[k] \in Metas}
  <2>1. 0 \in P /\ \A k \in P : k + 1 \in P
    BY <1>1, <1>5, PassIsMeta
  <2>2. P = Nat
    <3>1. P \subseteq Nat
      OBVIOUS
    <3> HIDE DEF P
    <3>. QED BY <2>1, <3>1, Induction
  <2>. QED BY <2>2
<1>7. after \in [Nat -> Metas]
  <2>1. after = [k \in Nat |-> after[k]]
    BY <1>4
  <2>. QED BY <1>6, <2>1
<1>. QED BY <1>5, <1>7 DEF after

\* Where every value refers to earlier rows only, the first k rows are settled after
\* k passes, and all are after as many passes as there are rows.
LEMMA PassesSettle ==
  ASSUME VariablesInv, Acyclic
  PROVE  Meta \in Metas /\ Expand(Meta) = Meta
<1> DEFINE N == Cardinality(DOMAIN decls)
           D == DOMAIN decls
           after == Passed
<1>1. N \in Nat
  BY FS_CardinalityType DEF VariablesInv
<1>2. PICK order \in [D -> 1 .. N] : \A n \in D : \A m \in VarRefs(decls[n]) \cap D : order[m] < order[n]
  BY DEF Acyclic
<1>3. after \in [Nat -> Metas] /\ \A k \in Nat : after[k + 1] = Expand(after[k])
  BY PassesFollow
<1> HIDE DEF N, after
<1>4. ASSUME NEW k \in Nat, NEW n \in D, \A m \in VarRefs(decls[n]) \cap D : after[k + 1][m] = after[k][m]
      PROVE  after[k + 2][n] = after[k + 1][n]
  <2> DEFINE v == Scope(after[k]) w == Scope(after[k + 1])
  <2>1. k + 1 \in Nat /\ (k + 1) + 1 = k + 2 /\ after[k] \in Metas /\ after[k + 1] \in Metas
    BY <1>3
  <2>2. after[k + 2] = Expand(after[k + 1]) /\ after[k + 1] = Expand(after[k])
    BY <1>3, <2>1
  <2>3. after[k + 2][n] = Substitute(decls[n], w) /\ after[k + 1][n] = Substitute(decls[n], v)
    BY <2>2 DEF Expand
  <2>4. "" \notin DOMAIN v /\ "" \notin DOMAIN w
    BY <2>1, ScopeOfAPass
  <2>5. ASSUME NEW m \in VarRefs(decls[n])
        PROVE  (m \in DOMAIN v <=> m \in DOMAIN w) /\ (m \in DOMAIN v => v[m] = w[m])
    <3>1. m \in D => after[k + 1][m] = after[k][m]
      BY <1>4
    <3> DEFINE x == after[k] y == after[k + 1]
    <3> HIDE DEF x, y
    <3>2. x \in Metas /\ y \in Metas /\ v = Scope(x) /\ w = Scope(y) /\ (m \in D => y[m] = x[m])
      BY <2>1, <3>1 DEF x, y
    <3> HIDE DEF v, w
    <3>3. /\ m \in DOMAIN v <=> (m \in D /\ x[m] # <<>>) \/ m \in DOMAIN session \/ m \in DOMAIN env
          /\ m \in DOMAIN v => v[m] = IF m \in D /\ x[m] # <<>> THEN x[m]
                                    ELSE IF m \in DOMAIN session THEN session[m] ELSE env[m]
      BY <3>2, ScopeOfAPass
    <3>4. /\ m \in DOMAIN w <=> (m \in D /\ y[m] # <<>>) \/ m \in DOMAIN session \/ m \in DOMAIN env
          /\ m \in DOMAIN w => w[m] = IF m \in D /\ y[m] # <<>> THEN y[m]
                                    ELSE IF m \in DOMAIN session THEN session[m] ELSE env[m]
      BY <3>2, ScopeOfAPass
    <3>. QED BY <3>2, <3>3, <3>4
  <2> HIDE DEF v, w
  <2>6. Substitute(decls[n], v) = Substitute(decls[n], w)
    BY <2>4, <2>5, SubstituteReadsItsRefs
  <2>. QED BY <2>3, <2>6
<1> DEFINE P == {r \in Nat : \A k \in Nat, n \in D : k >= r /\ order[n] <= r => after[k + 1][n] = after[k][n]}
<1>5. 0 \in P
  BY <1>1, <1>2
<1>6. ASSUME NEW r \in P PROVE r + 1 \in P
  <2>1. SUFFICES ASSUME NEW k \in Nat, NEW n \in D, k >= r + 1, order[n] <= r + 1
                 PROVE  after[k + 1][n] = after[k][n]
    OBVIOUS
  <2>2. r \in Nat /\ \A j \in Nat, m \in D : j >= r /\ order[m] <= r => after[j + 1][m] = after[j][m]
    OBVIOUS
  <2> HIDE DEF P
  <2>3. k - 1 \in Nat /\ k - 1 >= r /\ (k - 1) + 1 = k /\ (k - 1) + 2 = k + 1
    BY <2>1, <2>2
  <2>4. \A m \in VarRefs(decls[n]) \cap D : after[(k - 1) + 1][m] = after[k - 1][m]
    <3>1. ASSUME NEW m \in VarRefs(decls[n]) \cap D PROVE order[m] <= r
      <4>1. order[m] < order[n] /\ order[m] \in 1 .. N /\ order[n] \in 1 .. N
        BY <1>2
      <4>. QED BY <1>1, <2>1, <2>2, <4>1
    <3>. QED BY <2>2, <2>3, <3>1
  <2>. QED BY <1>4, <2>3, <2>4
<1>7. P = Nat
  <2>1. P \subseteq Nat
    OBVIOUS
  <2> HIDE DEF P
  <2>. QED BY <1>5, <1>6, <2>1, Induction
<1>8. \A n \in D : after[N + 2][n] = after[N + 1][n]
  <2>1. N + 1 \in Nat /\ N + 1 >= N /\ (N + 1) + 1 = N + 2 /\ \A n \in D : order[n] <= N
    BY <1>1, <1>2
  <2>2. \A n \in D : after[(N + 1) + 1][n] = after[N + 1][n]
    BY <1>1, <1>7, <2>1
  <2>. QED BY <2>1, <2>2
<1>9. after[N + 2] \in Metas /\ after[N + 1] \in Metas /\ after[N + 2] = Expand(after[N + 1])
  <2>1. N + 1 \in Nat /\ N + 2 \in Nat /\ (N + 1) + 1 = N + 2
    BY <1>1
  <2>. QED BY <1>3, <2>1
<1>10. after[N + 2] = after[N + 1]
  BY <1>8, <1>9 DEF Metas
<1>11. Meta = after[N + 1]
  BY DEF Meta, Passed, Passes, after, N
<1>. QED BY <1>9, <1>10, <1>11

\* The loop ends on texts, whatever refers to what.
LEMMA MetaIsMeta == ASSUME VariablesInv PROVE Meta \in Metas
<1>1. Passes \in Nat
  BY FS_CardinalityType DEF VariablesInv, Passes
<1>2. Meta = Passed[Passes]
  BY DEF Meta, Passed
<1>. QED BY <1>1, <1>2, PassesFollow

\* The passes leave no reference that the file answers.
LEMMA ValuesAreExpanded == ASSUME VariablesInv PROVE DerivedValuesAreExpanded
<1> DEFINE meta == Meta
           values == ResolvedValues
<1>1. meta \in Metas
  BY MetaIsMeta
<1>2. ASSUME Acyclic, NEW n \in DOMAIN decls PROVE meta[n] = Substitute(decls[n], Scope(meta))
  BY <1>2, PassesSettle DEF Expand
<1>3. values = Over(NonBlank(meta), Over(Base, meta))
  BY DEF ResolvedValues
<1> HIDE DEF meta, values
<1>4. DOMAIN meta = DOMAIN decls
  BY <1>1 DEF Metas
<1>5. /\ DOMAIN Base = DOMAIN session \cup DOMAIN env
      /\ \A n \in DOMAIN Base : Base[n] = IF n \in DOMAIN session THEN session[n] ELSE env[n]
  BY DEF Base, Over
<1>6. /\ DOMAIN NonBlank(meta) = {n \in DOMAIN decls : meta[n] # <<>>}
      /\ \A n \in DOMAIN NonBlank(meta) : NonBlank(meta)[n] = meta[n]
  BY <1>4 DEF NonBlank
<1> DEFINE below == Over(Base, meta)
<1>7. /\ DOMAIN below = DOMAIN Base \cup DOMAIN decls
      /\ \A n \in DOMAIN below : below[n] = IF n \in DOMAIN Base THEN Base[n] ELSE meta[n]
  BY <1>4 DEF Over
<1> HIDE DEF below
<1>8. /\ DOMAIN values = DOMAIN NonBlank(meta) \cup DOMAIN below
      /\ \A n \in DOMAIN values : values[n] = IF n \in DOMAIN NonBlank(meta) THEN NonBlank(meta)[n] ELSE below[n]
  BY <1>3 DEF Over, below
<1>9. DOMAIN values = DOMAIN decls \cup DOMAIN session \cup DOMAIN env
  BY <1>5, <1>6, <1>7, <1>8
<1>10. \A n \in DOMAIN values :
         values[n] = IF n \in DOMAIN decls /\ meta[n] # <<>> THEN meta[n]
                     ELSE IF n \in DOMAIN session THEN session[n]
                     ELSE IF n \in DOMAIN env THEN env[n]
                     ELSE <<>>
  <2>1. SUFFICES ASSUME NEW n \in DOMAIN values
          PROVE values[n] = IF n \in DOMAIN decls /\ meta[n] # <<>> THEN meta[n]
                     ELSE IF n \in DOMAIN session THEN session[n]
                     ELSE IF n \in DOMAIN env THEN env[n]
                     ELSE <<>>
    OBVIOUS
  <2>2. CASE n \in DOMAIN decls /\ meta[n] # <<>>
    BY <1>6, <1>8, <2>2
  <2>3. CASE ~(n \in DOMAIN decls /\ meta[n] # <<>>)
    <3>1. n \notin DOMAIN NonBlank(meta) /\ values[n] = below[n] /\ n \in DOMAIN below
      BY <1>6, <1>8, <2>3
    <3>. QED BY <1>5, <1>7, <2>3, <3>1
  <2>. QED BY <2>2, <2>3
<1>. QED BY <1>2, <1>9, <1>10 DEF DerivedValuesAreExpanded, meta, values

-----------------------------------------------------------------------------
\* Variables, the configuration.
HeaderNames == {"g", "h", "H"}
LevelHeaders == [name : HeaderNames, level : Nat]

\* The headers that the levels down to l give.
GivenDownTo(l) ==
  UNION {{[name |-> sidecars[k].headers[i], level |-> k] : i \in DOMAIN sidecars[k].headers} : k \in 1 .. l}

\* The headers of a level, the first n of them.
GivenAt(l, n) == {[name |-> sidecars[l].headers[i], level |-> l] : i \in 1 .. n}

\* One header of each name that was given, none from further out than another.
Gathered(order, given) ==
  /\ order \in Seq(LevelHeaders) /\ OneOfAName(order) /\ ToSet(order) \subseteq given
  /\ \A h \in given : \E r \in ToSet(order) : Lower(r.name) = Lower(h.name) /\ h.level <= r.level

\* What a header of a level does to those gathered so far.
LEMMA HeaderIsPut ==
  ASSUME NEW order, NEW given, Gathered(order, given), NEW h \in LevelHeaders,
         \A o \in given : o \in LevelHeaders /\ o.level <= h.level
  PROVE  Gathered(PutHeader(order, h), given \cup {h})
<1> DEFINE p == PutHeader(order, h)
           n == Len(order)
           same(i) == Lower(order[i].name) = Lower(h.name)
<1>1. /\ order \in Seq(LevelHeaders) /\ n \in Nat /\ DOMAIN order = 1 .. n
      /\ \A i \in 1 .. n : order[i] \in LevelHeaders /\ order[i] \in given
      /\ \A i, j \in 1 .. n : Lower(order[i].name) = Lower(order[j].name) => i = j
      /\ \A g \in given : \E i \in 1 .. n : Lower(order[i].name) = Lower(g.name) /\ g.level <= order[i].level
  <2>1. order \in Seq(LevelHeaders)
    BY DEF Gathered
  <2>2. n \in Nat /\ DOMAIN order = 1 .. n /\ \A i \in 1 .. n : order[i] \in LevelHeaders
    BY <2>1, LenProperties, ElementOfSeq
  <2>. QED BY <2>1, <2>2 DEF Gathered, OneOfAName, ToSet
<1>2. h.level \in Nat /\ h.level <= h.level
  BY DEF LevelHeaders
<1>3. CASE \E i \in 1 .. n : same(i)
  <2>1. PICK i \in 1 .. n : same(i)
    BY <1>3
  <2>2. p = [j \in 1 .. n |-> IF same(j) THEN h ELSE order[j]]
    BY <1>1, <1>3 DEF PutHeader
  <2>3. p = [order EXCEPT ![i] = h]
    BY <1>1, <2>1, <2>2
  <2>4. p \in Seq(LevelHeaders) /\ Len(p) = n /\ \A j \in 1 .. n : p[j] = IF j = i THEN h ELSE order[j]
    BY <1>1, <2>3, ExceptSeq
  <2>5. DOMAIN p = 1 .. n
    BY <2>4, LenProperties
  <2> HIDE DEF p
  <2>6. OneOfAName(p)
    BY <1>1, <2>1, <2>4, <2>5 DEF OneOfAName
  <2>7. ToSet(p) \subseteq given \cup {h}
    BY <1>1, <2>4, <2>5 DEF ToSet
  <2>8. ASSUME NEW g \in given \cup {h}
        PROVE  \E r \in ToSet(p) : Lower(r.name) = Lower(g.name) /\ g.level <= r.level
    <3>1. h \in ToSet(p)
      BY <2>1, <2>4, <2>5 DEF ToSet
    <3>2. CASE Lower(g.name) = Lower(h.name)
      BY <1>2, <3>1, <3>2
    <3>3. CASE Lower(g.name) # Lower(h.name)
      <4>1. PICK j \in 1 .. n : Lower(order[j].name) = Lower(g.name) /\ g.level <= order[j].level
        BY <1>1, <3>3
      <4>2. j # i
        BY <2>1, <3>3, <4>1
      <4>3. p[j] = order[j] /\ p[j] \in ToSet(p)
        BY <2>4, <2>5, <4>2 DEF ToSet
      <4>. QED BY <4>1, <4>3
    <3>. QED BY <3>2, <3>3
  <2>. QED BY <2>4, <2>6, <2>7, <2>8 DEF Gathered, p
<1>4. CASE ~\E i \in 1 .. n : same(i)
  <2>1. p = Append(order, h)
    BY <1>1, <1>4 DEF PutHeader
  <2>2. p \in Seq(LevelHeaders) /\ Len(p) = n + 1 /\ (\A j \in 1 .. n : p[j] = order[j]) /\ p[n + 1] = h
    BY <1>1, <2>1, AppendProperties
  <2>3. DOMAIN p = 1 .. n + 1 /\ (\A j \in 1 .. n + 1 : j \in 1 .. n \/ j = n + 1) /\ n + 1 \in 1 .. n + 1
        /\ \A j \in 1 .. n : j \in 1 .. n + 1
    BY <1>1, <2>2, LenProperties
  <2> HIDE DEF p
  <2>4. OneOfAName(p)
    BY <1>1, <1>4, <2>2, <2>3 DEF OneOfAName
  <2>5. ToSet(p) \subseteq given \cup {h}
    BY <1>1, <2>2, <2>3 DEF ToSet
  <2>6. ASSUME NEW g \in given \cup {h}
        PROVE  \E r \in ToSet(p) : Lower(r.name) = Lower(g.name) /\ g.level <= r.level
    <3>1. h \in ToSet(p) /\ \A j \in 1 .. n : order[j] \in ToSet(p)
      BY <2>2, <2>3 DEF ToSet
    <3>. QED BY <1>1, <1>2, <3>1
  <2>. QED BY <2>2, <2>4, <2>5, <2>6 DEF Gathered, p
<1>. QED BY <1>3, <1>4

\* The names of a sidecar's headers.
LEMMA SidecarHeaders ==
  ASSUME VariablesInv, NEW l \in 1 .. Levels
  PROVE  /\ sidecars[l].headers \in Seq(HeaderNames)
         /\ sidecars[l].script \in BOOLEAN /\ sidecars[l].auth \in BOOLEAN
         /\ sidecars[l].state # "config" =>
              sidecars[l].headers = <<>> /\ ~sidecars[l].script /\ ~sidecars[l].auth
<1>1. sidecars[l] \in Sidecars
  BY DEF VariablesInv
<1>2. \A list \in HeaderLists : list \in Seq(HeaderNames)
  <2>1. <<>> \in Seq(HeaderNames)
    BY EmptySeq
  <2>2. ASSUME NEW a \in HeaderNames PROVE <<a>> \in Seq(HeaderNames)
    <3>1. Append(<<>>, a) \in Seq(HeaderNames) /\ <<a>> = Append(<<>>, a)
      BY <2>1, AppendProperties
    <3>. QED BY <3>1
  <2>3. ASSUME NEW a \in HeaderNames, NEW b \in HeaderNames PROVE <<a, b>> \in Seq(HeaderNames)
    <3>1. <<a>> \in Seq(HeaderNames)
      BY <2>2
    <3>2. Append(<<a>>, b) \in Seq(HeaderNames) /\ <<a, b>> = Append(<<a>>, b)
      BY <3>1, AppendProperties
    <3>. QED BY <3>2
  <2>4. "g" \in HeaderNames /\ "h" \in HeaderNames /\ "H" \in HeaderNames
    BY DEF HeaderNames
  <2> HIDE DEF HeaderNames
  <2>. QED BY <2>1, <2>2, <2>3, <2>4 DEF HeaderLists
<1>3. <<>> \in HeaderLists
  BY DEF HeaderLists
<1>4. CASE sidecars[l] \in [state : {"config"}, headers : HeaderLists, script : BOOLEAN, auth : BOOLEAN]
  <2>1. /\ sidecars[l].headers \in HeaderLists /\ sidecars[l].state = "config"
        /\ sidecars[l].script \in BOOLEAN /\ sidecars[l].auth \in BOOLEAN
    BY <1>4
  <2>. QED BY <1>2, <2>1
<1>5. CASE sidecars[l] \in {[state |-> s, headers |-> <<>>, script |-> FALSE, auth |-> FALSE] : s \in {"none", "invalid"}}
  <2>1. sidecars[l].headers = <<>> /\ sidecars[l].script = FALSE /\ sidecars[l].auth = FALSE
    BY <1>5
  <2>. QED BY <1>2, <1>3, <2>1
<1>. QED BY <1>1, <1>4, <1>5 DEF Sidecars

\* A header is put in a list of headers.
LEMMA PutIsTyped ==
  ASSUME NEW x \in Seq(LevelHeaders), NEW h \in LevelHeaders
  PROVE  PutHeader(x, h) \in Seq(LevelHeaders)
<1>1. CASE \E i \in DOMAIN x : Lower(x[i].name) = Lower(h.name)
  <2>1. /\ Len(x) \in Nat /\ DOMAIN x = 1 .. Len(x) /\ \A i \in 1 .. Len(x) : x[i] \in LevelHeaders
    BY LenProperties, ElementOfSeq
  <2> DEFINE p == PutHeader(x, h)
  <2>2. p = [i \in 1 .. Len(x) |-> p[i]] /\ \A i \in 1 .. Len(x) : p[i] \in LevelHeaders
    BY <1>1, <2>1 DEF PutHeader
  <2> HIDE DEF p
  <2>3. p \in Seq(LevelHeaders)
    BY <2>1, <2>2, IsASeq
  <2>. QED BY <2>3 DEF p
<1>2. CASE ~\E i \in DOMAIN x : Lower(x[i].name) = Lower(h.name)
  BY <1>2, AppendProperties DEF PutHeader
<1>. QED BY <1>1, <1>2

\* A header of a level.
HeaderAt(l, i) == [name |-> sidecars[l].headers[i], level |-> l]

\* The headers of a level are headers.
LEMMA HeadersOfALevel ==
  ASSUME VariablesInv, NEW l \in 1 .. Levels
  PROVE  /\ Len(sidecars[l].headers) \in Nat
         /\ \A i \in 1 .. Len(sidecars[l].headers) : HeaderAt(l, i) \in LevelHeaders
<1> DEFINE names == sidecars[l].headers
<1>1. names \in Seq(HeaderNames) /\ l \in Nat
  BY SidecarHeaders
<1>2. Len(names) \in Nat /\ \A i \in 1 .. Len(names) : names[i] \in HeaderNames
  BY <1>1, LenProperties, ElementOfSeq
<1>. QED BY <1>1, <1>2 DEF LevelHeaders, HeaderAt

\* A level's headers are put one after the other.
LEMMA PutsFollow ==
  ASSUME VariablesInv, NEW l \in 1 .. Levels, NEW order \in Seq(LevelHeaders)
  PROVE  \E put \in [0 .. Len(sidecars[l].headers) -> Seq(LevelHeaders)] :
           /\ put[0] = order /\ PutHeaders(order, l) = put[Len(sidecars[l].headers)]
           /\ \A i \in 1 .. Len(sidecars[l].headers) : put[i] = PutHeader(put[i - 1], HeaderAt(l, i))
<1> DEFINE names == sidecars[l].headers
           N == Len(names)
           S == Seq(LevelHeaders)
           g == [i \in 1 .. N |-> [x \in S |-> PutHeader(x, HeaderAt(l, i))]]
<1>1. N \in Nat /\ \A i \in 1 .. N : HeaderAt(l, i) \in LevelHeaders
  BY HeadersOfALevel
<1>2. g \in StepsTo(N, S)
  BY <1>1, PutIsTyped DEF StepsTo
<1>3. PICK f \in [0 .. N -> S] : f = [i \in 0 .. N |-> IF i = 0 THEN order ELSE g[i][f[i - 1]]]
  <2>1. order \in S /\ N \in Nat /\ g \in StepsTo(N, S)
    BY <1>1, <1>2
  <2> HIDE DEF g, S, N
  <2>. QED BY <2>1, BoundedRecursion
<1>4. f = [i \in 0 .. N |-> IF i = 0 THEN order ELSE PutHeader(f[i - 1], HeaderAt(l, i))]
  <2>1. ASSUME NEW i \in 0 .. N, i # 0 PROVE g[i][f[i - 1]] = PutHeader(f[i - 1], HeaderAt(l, i))
    <3>1. i \in 1 .. N /\ i - 1 \in 0 .. N
      BY <1>1, <2>1
    <3>2. f[i - 1] \in S
      BY <3>1
    <3>. QED BY <3>1, <3>2
  <2>. QED BY <1>3, <2>1
<1> DEFINE put == CHOOSE c : c = [i \in 0 .. N |-> IF i = 0 THEN order ELSE PutHeader(c[i - 1], HeaderAt(l, i))]
<1>5. put = [i \in 0 .. N |-> IF i = 0 THEN order ELSE PutHeader(put[i - 1], HeaderAt(l, i))]
  <2> HIDE DEF N
  <2>. QED BY <1>4
<1>6. PutHeaders(order, l) = put[N]
  BY DEF PutHeaders, HeaderAt
<1> HIDE DEF put
<1>7. put[0] = order /\ \A i \in 1 .. N : put[i] = PutHeader(put[i - 1], HeaderAt(l, i))
  <2>1. ASSUME NEW i \in 1 .. N PROVE put[i] = PutHeader(put[i - 1], HeaderAt(l, i))
    <3>1. i \in 0 .. N /\ i # 0
      BY <1>1
    <3>. QED BY <1>5, <3>1
  <2>2. 0 \in 0 .. N
    BY <1>1
  <2>. QED BY <1>5, <2>1, <2>2
<1>8. \A i \in Nat : i <= N => put[i] \in S
  <2> DEFINE P == {i \in Nat : i <= N => put[i] \in S}
  <2>1. 0 \in P
    BY <1>7
  <2>2. ASSUME NEW i \in P PROVE i + 1 \in P
    <3>1. SUFFICES ASSUME i + 1 <= N PROVE put[i + 1] \in S
      OBVIOUS
    <3>2. i \in Nat /\ (i <= N => put[i] \in S)
      OBVIOUS
    <3> HIDE DEF P
    <3>3. i + 1 \in 1 .. N /\ (i + 1) - 1 = i /\ i <= N
      BY <1>1, <3>1, <3>2
    <3>4. put[i + 1] = PutHeader(put[i], HeaderAt(l, i + 1))
      BY <1>7, <3>3
    <3>5. HeaderAt(l, i + 1) \in LevelHeaders /\ put[i] \in S
      BY <1>1, <3>2, <3>3
    <3>. QED BY <3>4, <3>5, PutIsTyped
  <2>3. P = Nat
    <3>1. P \subseteq Nat
      OBVIOUS
    <3> HIDE DEF P
    <3>. QED BY <2>1, <2>2, <3>1, Induction
  <2>. QED BY <2>3
<1>9. put \in [0 .. N -> S]
  <2>1. put = [i \in 0 .. N |-> put[i]]
    BY <1>5
  <2>2. \A i \in 0 .. N : put[i] \in S
    BY <1>1, <1>8
  <2>. QED BY <2>1, <2>2
<1>. QED BY <1>6, <1>7, <1>9

\* They are all gathered.
LEMMA HeadersArePut ==
  ASSUME VariablesInv, NEW l \in 1 .. Levels, NEW order, NEW given, Gathered(order, given),
         \A o \in given : o \in LevelHeaders /\ o.level <= l
  PROVE  Gathered(PutHeaders(order, l), given \cup GivenAt(l, Len(sidecars[l].headers)))
<1> DEFINE names == sidecars[l].headers
           N == Len(names)
           header(i) == HeaderAt(l, i)
<1>1. N \in Nat /\ \A i \in 1 .. N : header(i) \in LevelHeaders
  BY HeadersOfALevel
<1>2. order \in Seq(LevelHeaders) /\ l \in Nat
  BY DEF Gathered
<1>3. PICK put \in [0 .. N -> Seq(LevelHeaders)] :
        /\ put[0] = order /\ PutHeaders(order, l) = put[N]
        /\ \A i \in 1 .. N : put[i] = PutHeader(put[i - 1], header(i))
  BY <1>2, PutsFollow
<1>4. \A i \in Nat : i <= N => Gathered(put[i], given \cup GivenAt(l, i))
  <2> DEFINE P == {i \in Nat : i <= N => Gathered(put[i], given \cup GivenAt(l, i))}
  <2>1. 0 \in P
    <3>1. put[0] = order /\ GivenAt(l, 0) = {} /\ given \cup {} = given
      BY <1>1, <1>3 DEF GivenAt, HeaderAt
    <3>. QED BY <3>1
  <2>2. ASSUME NEW i \in P PROVE i + 1 \in P
    <3>1. SUFFICES ASSUME i + 1 <= N PROVE Gathered(put[i + 1], given \cup GivenAt(l, i + 1))
      OBVIOUS
    <3>2. i \in Nat /\ (i <= N => Gathered(put[i], given \cup GivenAt(l, i)))
      OBVIOUS
    <3> HIDE DEF P
    <3> DEFINE h == header(i + 1)
               before == given \cup GivenAt(l, i)
    <3>3. i + 1 \in 1 .. N /\ i + 1 \in 0 .. N /\ i + 1 # 0 /\ (i + 1) - 1 = i /\ i <= N
      BY <1>1, <3>1, <3>2
    <3>4. put[i + 1] = PutHeader(put[i], h)
      BY <1>3, <3>3
    <3>5. h \in LevelHeaders /\ h.level = l
      BY <1>1, <3>3 DEF HeaderAt
    <3>6. GivenAt(l, i + 1) = GivenAt(l, i) \cup {h}
      <4>1. \A k : k \in 1 .. i + 1 <=> k \in 1 .. i \/ k = i + 1
        BY <3>2
      <4>. QED BY <4>1 DEF GivenAt, HeaderAt
    <3>7. \A o \in before : o \in LevelHeaders /\ o.level <= h.level
      <4>1. \A k \in 1 .. i : k \in 1 .. N
        BY <1>1, <3>2, <3>3
      <4>2. \A o \in GivenAt(l, i) : o \in LevelHeaders /\ o.level = l
        BY <1>1, <4>1 DEF GivenAt, HeaderAt
      <4>. QED BY <1>2, <3>5, <4>2
    <3>8. Gathered(put[i], before)
      BY <3>2, <3>3
    <3> HIDE DEF h, before
    <3>9. Gathered(PutHeader(put[i], h), before \cup {h})
      BY <3>5, <3>7, <3>8, HeaderIsPut
    <3>10. before \cup {h} = given \cup GivenAt(l, i + 1)
      BY <3>6 DEF before
    <3>. QED BY <3>4, <3>9, <3>10
  <2>3. P = Nat
    <3>1. P \subseteq Nat
      OBVIOUS
    <3> HIDE DEF P
    <3>. QED BY <2>1, <2>2, <3>1, Induction
  <2>. QED BY <2>3
<1>5. Gathered(put[N], given \cup GivenAt(l, N))
  <2> HIDE DEF N
  <2>1. N \in Nat /\ N <= N
    BY <1>1
  <2>. QED BY <1>4, <2>1
<1>. QED BY <1>3, <1>5

\* What the levels down to l resolve to.
Results == [defaultHeaders : Seq(LevelHeaders), scripts : Seq(Nat), auth : Nat]

ResolvedDownTo(resolved, l) ==
  /\ resolved \in Results
  /\ Gathered(resolved.defaultHeaders, GivenDownTo(l))
  /\ ToSet(resolved.scripts) = {k \in 1 .. l : sidecars[k].script}
  /\ \A i, j \in DOMAIN resolved.scripts : i < j => resolved.scripts[i] < resolved.scripts[j]
  /\ \A k \in 1 .. l : sidecars[k].auth => resolved.auth >= k
  /\ resolved.auth # 0 => resolved.auth \in 1 .. l /\ sidecars[resolved.auth].auth

\* A level joins the levels around it.
LEMMA LevelJoins ==
  ASSUME VariablesInv, NEW l \in Nat, l + 1 <= Levels, NEW resolved, ResolvedDownTo(resolved, l)
  PROVE  ResolvedDownTo(AddConfig(resolved, l + 1), l + 1)
<1> DEFINE n == l + 1
           next == AddConfig(resolved, n)
<1>1. /\ n \in 1 .. Levels /\ n \in Nat /\ n > 0
      /\ \A k : k \in 1 .. n <=> k \in 1 .. l \/ k = n
      /\ \A k \in 1 .. l : k < n
  <2>1. Levels \in Nat
    BY VariablesAssumption
  <2>2. n \in 1 .. Levels /\ n \in Nat /\ n > 0
    BY <2>1
  <2>3. \A k : k \in 1 .. n <=> k \in 1 .. l \/ k = n
    OBVIOUS
  <2>4. \A k \in 1 .. l : k < n
    OBVIOUS
  <2>. QED BY <2>2, <2>3, <2>4
<1>2. /\ resolved \in Results /\ Gathered(resolved.defaultHeaders, GivenDownTo(l))
      /\ ToSet(resolved.scripts) = {k \in 1 .. l : sidecars[k].script}
      /\ \A i, j \in DOMAIN resolved.scripts : i < j => resolved.scripts[i] < resolved.scripts[j]
      /\ \A k \in 1 .. l : sidecars[k].auth => resolved.auth >= k
      /\ resolved.auth # 0 => resolved.auth \in 1 .. l /\ sidecars[resolved.auth].auth
  BY DEF ResolvedDownTo
<1>3. /\ sidecars[n].headers \in Seq(HeaderNames)
      /\ sidecars[n].script \in BOOLEAN /\ sidecars[n].auth \in BOOLEAN
      /\ sidecars[n].state # "config" => sidecars[n].headers = <<>> /\ ~sidecars[n].script /\ ~sidecars[n].auth
  BY <1>1, SidecarHeaders
<1>4. GivenDownTo(n) = GivenDownTo(l) \cup GivenAt(n, Len(sidecars[n].headers))
  <2>1. DOMAIN sidecars[n].headers = 1 .. Len(sidecars[n].headers)
    BY <1>3, LenProperties
  <2> HIDE DEF n
  <2> DEFINE from(k) == {[name |-> sidecars[k].headers[i], level |-> k] : i \in DOMAIN sidecars[k].headers}
  <2>2. GivenDownTo(n) = UNION {from(k) : k \in 1 .. n} /\ GivenDownTo(l) = UNION {from(k) : k \in 1 .. l}
    BY DEF GivenDownTo
  <2>3. from(n) = GivenAt(n, Len(sidecars[n].headers))
    BY <2>1 DEF GivenAt
  <2> HIDE DEF from
  <2>. QED BY <1>1, <2>2, <2>3
<1>5. \A o \in GivenDownTo(l) : o \in LevelHeaders /\ o.level <= n
  <2>1. ASSUME NEW k \in 1 .. l, NEW i \in DOMAIN sidecars[k].headers
        PROVE  [name |-> sidecars[k].headers[i], level |-> k] \in LevelHeaders /\ k <= n
    <3>1. k \in 1 .. Levels /\ k \in Nat /\ k <= n
      <4>1. Levels \in Nat
        BY VariablesAssumption
      <4>. QED BY <4>1
    <3>2. sidecars[k].headers \in Seq(HeaderNames)
      BY <3>1, SidecarHeaders
    <3>3. sidecars[k].headers[i] \in HeaderNames
      BY <3>2, LenProperties, ElementOfSeq
    <3>. QED BY <3>1, <3>3 DEF LevelHeaders
  <2> HIDE DEF n
  <2>. QED BY <2>1 DEF GivenDownTo
<1>6. /\ resolved.scripts \in Seq(Nat) /\ resolved.auth \in Nat
      /\ Len(resolved.scripts) \in Nat /\ DOMAIN resolved.scripts = 1 .. Len(resolved.scripts)
      /\ resolved.defaultHeaders \in Seq(LevelHeaders)
  BY <1>2, LenProperties DEF Results
<1> HIDE DEF n
<1>7. CASE sidecars[n].state # "config"
  <2>1. next = resolved
    BY <1>7 DEF AddConfig
  <2>2. GivenAt(n, Len(sidecars[n].headers)) = {}
    BY <1>3, <1>7, EmptySeq DEF GivenAt
  <2>3. GivenDownTo(n) = GivenDownTo(l)
    BY <1>4, <2>2
  <2> HIDE DEF next
  <2>4. {k \in 1 .. n : sidecars[k].script} = {k \in 1 .. l : sidecars[k].script}
    BY <1>1, <1>3, <1>7
  <2>5. \A k \in 1 .. n : sidecars[k].auth => resolved.auth >= k
    BY <1>1, <1>2, <1>3, <1>7
  <2>6. ResolvedDownTo(resolved, n)
    BY <1>1, <1>2, <2>3, <2>4, <2>5 DEF ResolvedDownTo
  <2>. QED BY <2>1, <2>6 DEF next, n
<1>8. CASE sidecars[n].state = "config"
  <2> DEFINE order == PutHeaders(resolved.defaultHeaders, n)
             hooks == IF sidecars[n].script THEN Append(resolved.scripts, n) ELSE resolved.scripts
             auth == IF sidecars[n].auth THEN n ELSE resolved.auth
  <2>1. next = [defaultHeaders |-> order, scripts |-> hooks, auth |-> auth]
    BY <1>8 DEF AddConfig
  <2>2. Gathered(order, GivenDownTo(n))
    BY <1>1, <1>2, <1>4, <1>5, HeadersArePut
  <2>3. order \in Seq(LevelHeaders)
    BY <2>2 DEF Gathered
  <2>4. /\ hooks \in Seq(Nat)
        /\ ToSet(hooks) = {k \in 1 .. n : sidecars[k].script}
        /\ \A i, j \in DOMAIN hooks : i < j => hooks[i] < hooks[j]
    <3>1. CASE ~sidecars[n].script
      <4>1. hooks = resolved.scripts
        BY <3>1
      <4> HIDE DEF hooks
      <4>. QED BY <1>1, <1>2, <1>6, <3>1, <4>1
    <3>2. CASE sidecars[n].script
      <4> DEFINE old == resolved.scripts
                 m == Len(old)
      <4>1. hooks = Append(old, n)
        BY <3>2
      <4>2. hooks \in Seq(Nat) /\ Len(hooks) = m + 1 /\ (\A i \in 1 .. m : hooks[i] = old[i]) /\ hooks[m + 1] = n
        BY <1>1, <1>6, <4>1, AppendProperties
      <4>3. DOMAIN hooks = 1 .. m + 1
        BY <4>2, LenProperties
      <4>4. /\ m \in Nat /\ m + 1 \in 1 .. m + 1
            /\ \A i : i \in 1 .. m + 1 <=> i \in 1 .. m \/ i = m + 1
        BY <1>6
      <4> HIDE DEF hooks
      <4>5. \A i \in 1 .. m : old[i] \in 1 .. l /\ sidecars[old[i]].script
        BY <1>2, <1>6 DEF ToSet
      <4>6. \A k \in 1 .. l : sidecars[k].script => \E i \in 1 .. m : old[i] = k
        BY <1>2, <1>6 DEF ToSet
      <4>7. ToSet(hooks) = {hooks[i] : i \in 1 .. m + 1}
        BY <4>3 DEF ToSet
      <4>8. ToSet(hooks) = {k \in 1 .. n : sidecars[k].script}
        <5> HIDE DEF old, m
        <5>. QED BY <1>1, <3>2, <4>2, <4>4, <4>5, <4>6, <4>7
      <4>9. ASSUME NEW i \in 1 .. m + 1, NEW j \in 1 .. m + 1, i < j PROVE hooks[i] < hooks[j]
        <5>1. i \in 1 .. m
          BY <4>4, <4>9
        <5>2. CASE j \in 1 .. m
          BY <1>2, <1>6, <4>2, <4>9, <5>1, <5>2
        <5>3. CASE j = m + 1
          <6>1. old[i] < n
            BY <1>1, <4>5, <5>1
          <6>. QED BY <4>2, <5>1, <5>3, <6>1
        <5>. QED BY <4>4, <5>2, <5>3
      <4>. QED BY <4>2, <4>3, <4>8, <4>9
    <3>. QED BY <3>1, <3>2
  <2>5. /\ auth \in Nat
        /\ \A k \in 1 .. n : sidecars[k].auth => auth >= k
        /\ auth # 0 => auth \in 1 .. n /\ sidecars[auth].auth
    <3>1. CASE sidecars[n].auth
      <4>1. auth = n
        BY <3>1
      <4> HIDE DEF auth
      <4>. QED BY <1>1, <3>1, <4>1
    <3>2. CASE ~sidecars[n].auth
      <4>1. auth = resolved.auth
        BY <3>2
      <4> HIDE DEF auth
      <4>. QED BY <1>1, <1>2, <1>6, <3>2, <4>1
    <3>. QED BY <3>1, <3>2
  <2> HIDE DEF order, hooks, auth, next
  <2>6. next \in Results /\ next.defaultHeaders = order /\ next.scripts = hooks /\ next.auth = auth
    BY <2>1, <2>3, <2>4, <2>5 DEF Results
  <2>7. ResolvedDownTo(next, n)
    BY <2>2, <2>4, <2>5, <2>6 DEF ResolvedDownTo
  <2>. QED BY <2>7 DEF next, n
<1>. QED BY <1>7, <1>8

\* Whatever is added to a result is a result.
LEMMA ResultIsTyped ==
  ASSUME VariablesInv, NEW l \in 1 .. Levels, NEW resolved \in Results
  PROVE  AddConfig(resolved, l) \in Results
<1> DEFINE S == Seq(LevelHeaders)
<1>1. resolved.defaultHeaders \in S /\ resolved.scripts \in Seq(Nat) /\ resolved.auth \in Nat /\ l \in Nat
  BY DEF Results
<1>2. PutHeaders(resolved.defaultHeaders, l) \in S
  <2> DEFINE order == resolved.defaultHeaders
             N == Len(sidecars[l].headers)
  <2>1. order \in Seq(LevelHeaders) /\ N \in Nat
    BY <1>1, HeadersOfALevel
  <2> HIDE DEF order
  <2>2. PICK put \in [0 .. N -> Seq(LevelHeaders)] : PutHeaders(order, l) = put[N]
    BY <2>1, PutsFollow
  <2> HIDE DEF N
  <2>3. N \in 0 .. N
    BY <2>1
  <2>. QED BY <2>2, <2>3 DEF order
<1>3. Append(resolved.scripts, l) \in Seq(Nat)
  BY <1>1, AppendProperties
<1>. QED BY <1>1, <1>2, <1>3 DEF AddConfig, Results

\* The levels resolve one after the other.
LEMMA ChainResolves == ASSUME VariablesInv PROVE ResolvedDownTo(ResolveConfig, Levels)
<1> DEFINE g == [l \in 1 .. Levels |-> [x \in Results |-> AddConfig(x, l)]]
<1>1. Levels \in Nat /\ Unconfigured \in Results /\ g \in StepsTo(Levels, Results)
  <2>1. <<>> \in Seq(LevelHeaders) /\ <<>> \in Seq(Nat)
    BY EmptySeq
  <2>2. Unconfigured \in Results
    BY <2>1 DEF Unconfigured, Results
  <2>3. g \in StepsTo(Levels, Results)
    BY ResultIsTyped DEF StepsTo
  <2>. QED BY <2>2, <2>3, VariablesAssumption
<1>2. PICK f \in [0 .. Levels -> Results] : f = [l \in 0 .. Levels |-> IF l = 0 THEN Unconfigured ELSE g[l][f[l - 1]]]
  <2> HIDE DEF g
  <2>. QED BY <1>1, BoundedRecursion
<1>3. f = [l \in 0 .. Levels |-> IF l = 0 THEN Unconfigured ELSE AddConfig(f[l - 1], l)]
  <2>1. ASSUME NEW l \in 0 .. Levels, l # 0 PROVE g[l][f[l - 1]] = AddConfig(f[l - 1], l)
    <3>1. l \in 1 .. Levels /\ l - 1 \in 0 .. Levels
      BY <1>1, <2>1
    <3>2. f[l - 1] \in Results
      BY <3>1
    <3>. QED BY <3>1, <3>2
  <2>. QED BY <1>2, <2>1
<1> DEFINE after == CHOOSE c : c = [l \in 0 .. Levels |-> IF l = 0 THEN Unconfigured ELSE AddConfig(c[l - 1], l)]
<1>4. after = [l \in 0 .. Levels |-> IF l = 0 THEN Unconfigured ELSE AddConfig(after[l - 1], l)]
  BY <1>3
<1>5. ResolveConfig = after[Levels]
  BY DEF ResolveConfig
<1> HIDE DEF after
<1>6. \A l \in Nat : l <= Levels => ResolvedDownTo(after[l], l)
  <2> DEFINE P == {l \in Nat : l <= Levels => ResolvedDownTo(after[l], l)}
  <2>1. 0 \in P
    <3>1. after[0] = Unconfigured /\ 1 .. 0 = {}
      BY <1>1, <1>4
    <3>2. <<>> \in Seq(LevelHeaders) /\ DOMAIN <<>> = {} /\ ToSet(<<>>) = {}
      BY EmptySeq DEF ToSet
    <3>3. Gathered(<<>>, GivenDownTo(0))
      BY <3>1, <3>2 DEF Gathered, GivenDownTo, OneOfAName
    <3>4. ResolvedDownTo(Unconfigured, 0)
      BY <1>1, <3>1, <3>2, <3>3 DEF ResolvedDownTo, Unconfigured
    <3>. QED BY <3>1, <3>4
  <2>2. ASSUME NEW l \in P PROVE l + 1 \in P
    <3>1. SUFFICES ASSUME l + 1 <= Levels PROVE ResolvedDownTo(after[l + 1], l + 1)
      OBVIOUS
    <3>2. l \in Nat /\ (l <= Levels => ResolvedDownTo(after[l], l))
      OBVIOUS
    <3> HIDE DEF P
    <3>3. l + 1 \in 0 .. Levels /\ l + 1 # 0 /\ (l + 1) - 1 = l /\ l <= Levels
      BY <1>1, <3>1, <3>2
    <3>4. after[l + 1] = AddConfig(after[l], l + 1)
      BY <1>4, <3>3
    <3>. QED BY <3>1, <3>2, <3>3, <3>4, LevelJoins
  <2>3. P = Nat
    <3>1. P \subseteq Nat
      OBVIOUS
    <3> HIDE DEF P
    <3>. QED BY <2>1, <2>2, <3>1, Induction
  <2>. QED BY <2>3
<1>. QED BY <1>1, <1>5, <1>6

\* A request's own header takes the place of the default of its name.
LEMMA OwnHeaderWins ==
  ASSUME NEW defaults \in Seq(LevelHeaders), OneOfAName(defaults), NEW own,
         NEW S, LevelHeaders \subseteq S, own \in S
  PROVE  /\ OneOfAName(MergeRequestHeaders(defaults, <<own>>))
         /\ ToSet(MergeRequestHeaders(defaults, <<own>>)) =
              {h \in ToSet(defaults) : Lower(h.name) # Lower(own.name)} \cup {own}
<1> DEFINE n == Len(defaults)
           ss == [i \in DOMAIN defaults |->
                   IF \E k \in DOMAIN <<own>> : Lower(<<own>>[k].name) = Lower(defaults[i].name)
                   THEN <<>> ELSE <<defaults[i]>>]
           levels == FlattenSeq(ss)
           merged == MergeRequestHeaders(defaults, <<own>>)
<1>1. n \in Nat /\ DOMAIN defaults = 1 .. n /\ defaults \in Seq(S) /\ \A i \in 1 .. n : defaults[i] \in S
  BY LenProperties, ElementOfSeq, SeqMonotonic
<1>2. \A i \in 1 .. n : ss[i] = IF Lower(own.name) = Lower(defaults[i].name) THEN <<>> ELSE <<defaults[i]>>
  <2>1. DOMAIN <<own>> = {1} /\ <<own>>[1] = own
    OBVIOUS
  <2>. QED BY <1>1, <2>1
<1>3. merged = levels \o <<own>>
  BY DEF MergeRequestHeaders
<1>4. DOMAIN ss = 1 .. n /\ ss = [i \in 1 .. n |-> ss[i]]
  BY <1>1
<1> HIDE DEF ss, merged
<1>5. /\ \A i \in 1 .. n : ss[i] = <<>> \/ ss[i] = <<defaults[i]>>
      /\ \A i \in 1 .. n : ss[i] # <<>> <=> Lower(own.name) # Lower(defaults[i].name)
  <2>1. \A x : <<x>> # <<>>
    OBVIOUS
  <2>. QED BY <1>2, <2>1
<1>6. \A x \in S : <<x>> \in Seq(S)
  <2>1. ASSUME NEW x \in S PROVE <<x>> \in Seq(S)
    <3>1. <<>> \in Seq(S)
      BY EmptySeq
    <3>2. Append(<<>>, x) \in Seq(S) /\ <<x>> = Append(<<>>, x)
      BY <3>1, AppendProperties
    <3>. QED BY <3>2
  <2>. QED BY <2>1
<1>7. ss \in Lists(S) /\ Len(ss) = n
  <2> DEFINE T == Seq(S)
  <2>1. <<>> \in T /\ \A i \in 1 .. n : ss[i] \in T
    BY <1>1, <1>5, <1>6, EmptySeq
  <2> HIDE DEF T
  <2>2. ss \in Seq(T)
    BY <1>1, <1>4, <2>1, IsASeq
  <2>3. Len(ss) = n
    BY <1>1, <1>4
  <2>. QED BY <2>2, <2>3 DEF Lists, T
<1>8. levels \in Seq(S) /\ \E from : Keeps(defaults, ss, levels, n, from)
  BY <1>1, <1>5, <1>7, Kept
<1> HIDE DEF levels
<1>9. PICK from : Keeps(defaults, ss, levels, n, from)
  BY <1>8
<1> DEFINE m == Len(levels)
<1>10. m \in Nat /\ Len(merged) = m + 1 /\ DOMAIN merged = 1 .. m + 1
       /\ (\A i \in 1 .. m : merged[i] = levels[i]) /\ merged[m + 1] = own
  <2>1. m \in Nat /\ merged = Append(levels, own) /\ merged \in Seq(S)
    BY <1>3, <1>8, LenProperties, AppendIsConcat, AppendProperties
  <2>. QED BY <1>8, <2>1, AppendProperties, LenProperties
<1> HIDE DEF m
<1>11. /\ \A i \in 1 .. m : from[i] \in 1 .. n
       /\ \A i, j \in 1 .. m : i < j => from[i] < from[j]
       /\ \A i \in 1 .. m : levels[i] = defaults[from[i]] /\ ss[from[i]] # <<>>
       /\ \A k \in 1 .. n : ss[k] # <<>> => \E i \in 1 .. m : from[i] = k
  BY <1>9 DEF Keeps, m
<1>12. \A i : i \in 1 .. m + 1 <=> i \in 1 .. m \/ i = m + 1
  BY <1>10
<1>13. OneOfAName(merged)
  <2>1. ASSUME NEW i \in 1 .. m, NEW j \in 1 .. m, Lower(merged[i].name) = Lower(merged[j].name) PROVE i = j
    <3>1. from[i] = from[j]
      BY <1>1, <1>10, <1>11, <2>1 DEF OneOfAName
    <3>2. ~(i < j) /\ ~(j < i)
      BY <1>11, <3>1
    <3>. QED BY <1>10, <3>2
  <2>2. ASSUME NEW i \in 1 .. m PROVE Lower(merged[i].name) # Lower(own.name)
    <3>1. from[i] \in 1 .. n /\ merged[i] = defaults[from[i]] /\ ss[from[i]] # <<>>
      BY <1>10, <1>11
    <3>. QED BY <1>5, <3>1
  <2>. QED BY <1>10, <1>12, <2>1, <2>2 DEF OneOfAName
<1>14. ToSet(merged) = {h \in ToSet(defaults) : Lower(h.name) # Lower(own.name)} \cup {own}
  <2>1. ToSet(merged) = {merged[i] : i \in 1 .. m + 1} /\ ToSet(defaults) = {defaults[i] : i \in 1 .. n}
    BY <1>1, <1>10 DEF ToSet
  <2>2. ASSUME NEW i \in 1 .. m
        PROVE  merged[i] \in ToSet(defaults) /\ Lower(merged[i].name) # Lower(own.name)
    BY <1>5, <1>10, <1>11, <2>1
  <2>3. ASSUME NEW k \in 1 .. n, Lower(defaults[k].name) # Lower(own.name)
        PROVE  \E i \in 1 .. m : merged[i] = defaults[k]
    BY <1>5, <1>10, <1>11, <2>3
  <2>4. own \in ToSet(merged)
    BY <1>10, <1>12, <2>1
  <2>5. \A h \in ToSet(merged) : h = own \/ (h \in ToSet(defaults) /\ Lower(h.name) # Lower(own.name))
    BY <1>10, <1>12, <2>1, <2>2
  <2>6. \A h \in ToSet(defaults) : Lower(h.name) # Lower(own.name) => h \in ToSet(merged)
    <3>1. ASSUME NEW k \in 1 .. n, Lower(defaults[k].name) # Lower(own.name) PROVE defaults[k] \in ToSet(merged)
      <4>1. PICK i \in 1 .. m : merged[i] = defaults[k]
        BY <2>3, <3>1
      <4>. QED BY <1>12, <2>1, <4>1
    <3>. QED BY <2>1, <3>1
  <2>. QED BY <2>4, <2>5, <2>6
<1>. QED BY <1>13, <1>14 DEF merged

\* Of every name the header of the nearest level is sent.
LEMMA NearestWins == ASSUME VariablesInv PROVE NearestConfigWins
<1> DEFINE resolved == ResolveConfig
           defaults == resolved.defaultHeaders
<1>1. ResolvedDownTo(resolved, Levels)
  BY ChainResolves
<1> HIDE DEF resolved
<1>2. /\ defaults \in Seq(LevelHeaders) /\ OneOfAName(defaults) /\ ToSet(defaults) \subseteq GivenDownTo(Levels)
      /\ \A h \in GivenDownTo(Levels) : \E r \in ToSet(defaults) : Lower(r.name) = Lower(h.name) /\ h.level <= r.level
  BY <1>1 DEF ResolvedDownTo, Gathered
<1>3. GivenDownTo(Levels) = ConfigHeaders
  BY DEF GivenDownTo, ConfigHeaders
<1>4. ASSUME NEW name \in {"g", "H"}
      PROVE  LET own == [name |-> name, level |-> Levels + 1]
                 merged == MergeRequestHeaders(defaults, <<own>>)
             IN /\ OneOfAName(merged)
                /\ ToSet(merged) = {h \in ToSet(defaults) : Lower(h.name) # Lower(name)} \cup {own}
  <2> DEFINE own == [name |-> name, level |-> Levels + 1]
  <2>1. own \in LevelHeaders /\ own.name = name
    <3>1. Levels \in Nat
      BY VariablesAssumption
    <3>2. Levels + 1 \in Nat /\ name \in HeaderNames
      BY <3>1 DEF HeaderNames
    <3>. QED BY <3>2 DEF LevelHeaders
  <2> HIDE DEF own, defaults
  <2>2. /\ OneOfAName(MergeRequestHeaders(defaults, <<own>>))
        /\ ToSet(MergeRequestHeaders(defaults, <<own>>)) =
             {h \in ToSet(defaults) : Lower(h.name) # Lower(own.name)} \cup {own}
    BY <1>2, <2>1, OwnHeaderWins
  <2>. QED BY <2>1, <2>2 DEF own
<1>5. /\ ToSet(resolved.scripts) = {l \in 1 .. Levels : sidecars[l].script}
      /\ \A i, j \in DOMAIN resolved.scripts : i < j => resolved.scripts[i] < resolved.scripts[j]
      /\ \A l \in 1 .. Levels : sidecars[l].auth => resolved.auth >= l
      /\ resolved.auth # 0 => resolved.auth \in 1 .. Levels /\ sidecars[resolved.auth].auth
  BY <1>1 DEF ResolvedDownTo
<1>. QED BY <1>2, <1>3, <1>4, <1>5 DEF NearestConfigWins, resolved

-----------------------------------------------------------------------------
\* The edits keep every value a text and every sidecar a sidecar.
LEMMA PutIsScope ==
  ASSUME NEW f, IsScope(f), NEW n \in Names, NEW v \in Texts
  PROVE  IsScope(Put(f, n, v)) /\ DOMAIN Put(f, n, v) = DOMAIN f \cup {n}
<1>1. DOMAIN Put(f, n, v) = DOMAIN f \cup {n}
  BY DEF Put, Over
<1>2. \A k \in DOMAIN Put(f, n, v) : Put(f, n, v)[k] = IF k = n THEN v ELSE f[k]
  BY DEF Put, Over
<1>. QED BY <1>1, <1>2 DEF IsScope

\* What is written to the file, the session or the environment is a text.
LEMMA WrittenTexts ==
  /\ RawValues \subseteq Texts /\ <<Lit("s")>> \in Texts /\ <<Lit("e")>> \in Texts
  /\ \A n \in Names : <<Ref(n)>> \in Texts
<1>1. <<>> \in Texts
  BY EmptySeq DEF Texts
<1>2. ASSUME NEW t \in Texts, NEW p \in Pieces PROVE Append(t, p) \in Texts
  BY AppendProperties DEF Texts
<1>3. ASSUME NEW p \in Pieces PROVE <<p>> \in Texts
  <2>1. <<p>> = Append(<<>>, p)
    OBVIOUS
  <2>. QED BY <1>1, <1>2, <2>1
<1>4. ASSUME NEW p \in Pieces, NEW q \in Pieces PROVE <<p, q>> \in Texts
  <2>1. <<p, q>> = Append(<<p>>, q)
    OBVIOUS
  <2>. QED BY <1>2, <1>3, <2>1
<1>5. /\ Lit("x") \in Pieces /\ Lit("s") \in Pieces /\ Lit("e") \in Pieces
      /\ \A n \in Names : Ref(n) \in Pieces /\ RefOr(n) \in Pieces
  BY DEF Lit, Ref, RefOr, Pieces
<1> HIDE DEF Pieces
<1>. QED BY <1>1, <1>3, <1>4, <1>5 DEF RawValues

\* A request is sent with the values and the configuration its files say.
THEOREM SentAsTheFilesSay == VariablesSpec => []SentAsConfigured
<1>1. VariablesInit => VariablesInv
  <2>1. SUFFICES ASSUME VariablesInit PROVE VariablesInv
    OBVIOUS
  <2>2. decls = <<>> /\ session = <<>> /\ env = <<>> /\ sidecars = [l \in 1 .. Levels |-> NoSidecar]
    BY <2>1 DEF VariablesInit
  <2>3. DOMAIN <<>> = {} /\ <<>> = [n \in {} |-> <<>>]
    OBVIOUS
  <2>4. decls \in Metas /\ IsScope(<<>>) /\ IsFiniteSet(DOMAIN decls)
    BY <2>2, <2>3, FS_EmptySet DEF Metas, IsScope
  <2>5. NoSidecar \in Sidecars
    BY DEF NoSidecar, Sidecars
  <2>. QED BY <2>2, <2>4, <2>5 DEF VariablesInv
<1>2. VariablesInv /\ [VariablesNext]_variablesVars => VariablesInv'
  <2>1. SUFFICES ASSUME VariablesInv, [VariablesNext]_variablesVars PROVE VariablesInv'
    OBVIOUS
  <2>2. ASSUME NEW n \in Names, EditMeta(n) PROVE VariablesInv'
    <3>1. PICK v \in RawValues : decls' = Put(decls, n, v)
      BY <2>2 DEF EditMeta
    <3>2. v \in Texts
      BY <3>1, WrittenTexts
    <3>3. IsScope(decls') /\ DOMAIN decls' = DOMAIN decls \cup {n}
      BY <2>1, <3>1, <3>2, PutIsScope DEF VariablesInv
    <3>4. IsFiniteSet(DOMAIN decls')
      BY <2>1, <3>3, FS_AddElement DEF VariablesInv
    <3>5. decls' \in [DOMAIN decls' -> Texts]
      <4>1. decls' = [k \in DOMAIN decls' |-> decls'[k]]
        BY <3>1 DEF Put, Over
      <4>. QED BY <3>3, <4>1 DEF IsScope
    <3>. QED BY <2>1, <2>2, <3>3, <3>4, <3>5 DEF VariablesInv, EditMeta, Metas, IsScope
  <2>3. ASSUME NEW n \in Outer, SetSession(n) PROVE VariablesInv'
    <3>1. PICK v \in {<<Lit("s")>>, <<Ref(n)>>} : session' = Put(session, n, v)
      BY <2>3 DEF SetSession
    <3>2. n \in Names /\ v \in Texts
      BY <3>1, VariablesAssumption, WrittenTexts
    <3>3. IsScope(session')
      BY <2>1, <3>1, <3>2, PutIsScope DEF VariablesInv
    <3>. QED BY <2>1, <2>3, <3>3 DEF VariablesInv, SetSession, Metas, IsScope
  <2>4. ASSUME NEW n \in Outer, EditEnv(n) PROVE VariablesInv'
    <3>1. n \in Names /\ <<Lit("e")>> \in Texts
      BY VariablesAssumption, WrittenTexts
    <3>2. IsScope(env')
      BY <2>1, <2>4, <3>1, PutIsScope DEF VariablesInv, EditEnv
    <3>. QED BY <2>1, <2>4, <3>2 DEF VariablesInv, EditEnv, Metas, IsScope
  <2>5. ASSUME NEW l \in 1 .. Levels, WriteSidecar(l) PROVE VariablesInv'
    <3>1. sidecars' \in [1 .. Levels -> Sidecars]
      BY <2>1, <2>5 DEF VariablesInv, WriteSidecar
    <3>. QED BY <2>1, <2>5, <3>1 DEF VariablesInv, WriteSidecar, Metas, IsScope
  <2>6. CASE UNCHANGED variablesVars
    BY <2>1, <2>6 DEF VariablesInv, variablesVars, Metas, IsScope
  <2>. QED BY <2>1, <2>2, <2>3, <2>4, <2>5, <2>6 DEF VariablesNext
<1>3. VariablesInv => SentAsConfigured
  BY ValuesAreExpanded, NearestWins DEF SentAsConfigured
<1>. QED BY <1>1, <1>2, <1>3, PTL DEF VariablesSpec

-----------------------------------------------------------------------------
(***************************************************************************)
(* RequestForm: the editor of a request.                                   *)
(***************************************************************************)
Users == {Unset, "u", "u:p", "v:p"}
Grants == {Unset, "grant", "grant2"}
BodyTexts == {Unset, "text", "other", "data of q", "data of r"}
Queries == {Unset, "q", "r"}
FormData == {Unset, "f", "g"}
Values == {"", "1", "2", "3", "t", "t2"}
HeaderSet ==
  {h \in [name : {"X", "Y", Authorization}, bearer : BOOLEAN, value : Values] : h.bearer = (h.name = Authorization)}
VarSet == [name : {"V"}, def : {"x", "y", "z", Required}]
Models ==
  [user : Users, auth : Grants,
   headers : Seq(HeaderSet), disabled : Seq(HeaderSet),
   body : BodyTexts,
   graphql : Queries, formFields : FormData,
   variables : Seq(VarSet), secrets : SUBSET {"V"}]
RowSet == [enabled : BOOLEAN, header : HeaderSet]
VarRowSet == [v : VarSet, secret : BOOLEAN]
Forms ==
  [rows : Seq(RowSet), bodyMode : {"raw", "graphql", "multipart"},
   bodyText : BodyTexts,
   gqlQuery : Queries, formRows : FormData,
   authMode : {Unset, "basic", "bearer", "oauth2"}, user : Users,
   token : Values, oauth : Grants, varRows : Seq(VarRowSet)]

\* No two headers of a name.
Distinct(hs) == \A i, j \in 1 .. Len(hs) : hs[i].name = hs[j].name => i = j

\* A model that the form gives back as it is.
GoodModel(m) ==
  /\ m \in Models
  /\ m.auth # Unset => m.user = Unset
  /\ m.auth # Unset \/ m.user # Unset => Bearers(m.headers) = <<>>
  /\ m.graphql # Unset => m.formFields = Unset
  /\ m.formFields # Unset => m.body = Unset
  /\ Distinct(m.disabled)
  /\ m.secrets \subseteq {m.variables[i].name : i \in DOMAIN m.variables}

VarsOf(f) == [i \in DOMAIN f.varRows |-> f.varRows[i].v]
SecretsOf(f) == {f.varRows[i].v.name : i \in {k \in DOMAIN f.varRows : f.varRows[k].secret}}

\* What a form still has of its model m when the sections t have been edited.
Untouched(f, m, t) ==
  /\ "headers" \notin t => Headers(f, TRUE) = m.headers /\ Headers(f, FALSE) = m.disabled
  /\ "body" \notin t => /\ f.bodyText = m.body
                        /\ m.graphql # Unset => f.gqlQuery = m.graphql
                        /\ m.formFields # Unset => f.formRows = m.formFields
  /\ "bodyMode" \notin t => f.bodyMode = BodyModeOf(m)
  /\ "auth" \notin t => /\ AuthModeOf(m) = "basic" => f.user = m.user
                        /\ AuthModeOf(m) = "bearer" => f.token = Bearers(m.headers)[1].value
                        /\ AuthModeOf(m) = "oauth2" => f.oauth = m.auth
  /\ "authMode" \notin t => f.authMode = AuthModeOf(m)
  /\ "vars" \notin t => VarsOf(f) = m.variables /\ SecretsOf(f) = m.secrets

FormInv ==
  /\ form \in Forms
  /\ GoodModel(base) /\ GoodModel(fileRef)
  /\ rawDraft = Invalid \/ GoodModel(rawDraft)
  /\ saveOf = NoFormSave \/ GoodModel(saveOf.file)
  /\ Untouched(form, base, touched)

\* The elements at some places.
Picked(s, places) == [i \in DOMAIN s |-> IF i \in places THEN <<s[i]>> ELSE <<>>]

\* The elements that are picked, as the list of lists they are joined from.
LEMMA PickedParts ==
  ASSUME NEW S, NEW s \in Seq(S), NEW places
  PROVE  /\ Picked(s, places) \in Lists(S) /\ Len(Picked(s, places)) = Len(s) /\ Len(s) \in Nat
         /\ \A i \in 1 .. Len(s) : /\ s[i] \in S /\ i \in places => Picked(s, places)[i] = <<s[i]>>
                                   /\ s[i] \in S /\ i \notin places => Picked(s, places)[i] = <<>>
<1> DEFINE n == Len(s)
           p == Picked(s, places)
           T == Seq(S)
<1>1. n \in Nat /\ DOMAIN s = 1 .. n /\ \A i \in 1 .. n : s[i] \in S
  BY LenProperties, ElementOfSeq
<1>2. \A i \in 1 .. n : <<s[i]>> \in T
  BY <1>1
<1>3. <<>> \in T
  BY EmptySeq
<1>4. p = [i \in 1 .. n |-> p[i]] /\ \A i \in 1 .. n : p[i] \in T
  <2> HIDE DEF T
  <2>. QED BY <1>1, <1>2, <1>3 DEF Picked
<1>5. p \in Seq(T)
  <2> HIDE DEF T, p, n
  <2>. QED BY <1>1, <1>4, IsASeq
<1>6. Len(p) = n
  <2>1. DOMAIN p = 1 .. n
    BY <1>1 DEF Picked
  <2>2. Len(p) \in Nat /\ DOMAIN p = 1 .. Len(p)
    <3> HIDE DEF p, T
    <3>. QED BY <1>5, LenProperties
  <2>. QED BY <1>1, <2>1, <2>2
<1>. QED BY <1>1, <1>5, <1>6 DEF Lists, Picked

\* What is picked, and in which order.
LEMMA PickedInOrder ==
  ASSUME NEW S, NEW s \in Seq(S), NEW places
  PROVE  /\ FlattenSeq(Picked(s, places)) \in Seq(S)
         /\ \E from : Keeps(s, Picked(s, places), FlattenSeq(Picked(s, places)), Len(s), from)
<1> DEFINE p == Picked(s, places)
<1>1. p \in Lists(S) /\ Len(p) = Len(s) /\ \A i \in 1 .. Len(s) : p[i] = <<>> \/ p[i] = <<s[i]>>
  <2>1. \A i \in 1 .. Len(s) : s[i] \in S
    BY LenProperties, ElementOfSeq
  <2>. QED BY <2>1, PickedParts
<1> HIDE DEF p
<1>2. FlattenSeq(p) \in Seq(S) /\ \E from : Keeps(s, p, FlattenSeq(p), Len(s), from)
  BY <1>1, Kept
<1>. QED BY <1>2 DEF p

\* Picked at all places, a list stays as it is.
LEMMA PickedAll ==
  ASSUME NEW S, NEW s \in Seq(S), NEW places, \A i \in 1 .. Len(s) : i \in places
  PROVE  FlattenSeq(Picked(s, places)) = s
<1> DEFINE p == Picked(s, places)
<1>1. p \in Lists(S) /\ Len(p) = Len(s) /\ \A i \in 1 .. Len(s) : p[i] = <<s[i]>>
  <2>1. \A i \in 1 .. Len(s) : s[i] \in S
    BY LenProperties, ElementOfSeq
  <2>. QED BY <2>1, PickedParts
<1> HIDE DEF p
<1>2. FlattenSeq(p) = s
  BY <1>1, FlatAll
<1>. QED BY <1>2 DEF p

\* Picked at no place, nothing is left.
LEMMA PickedNone ==
  ASSUME NEW S, NEW s \in Seq(S), NEW places, \A i \in 1 .. Len(s) : i \notin places
  PROVE  FlattenSeq(Picked(s, places)) = <<>>
<1> DEFINE p == Picked(s, places)
<1>1. p \in Lists(S) /\ Len(p) = Len(s) /\ \A i \in 1 .. Len(s) : p[i] = <<>>
  <2>1. \A i \in 1 .. Len(s) : s[i] \in S
    BY LenProperties, ElementOfSeq
  <2>. QED BY <2>1, PickedParts
<1> HIDE DEF p
<1>2. FlattenSeq(p) = <<>>
  BY <1>1, FlatNone
<1>. QED BY <1>2 DEF p

BearerPlaces(hs) == {i \in DOMAIN hs : IsBearer(hs[i])}
PlainPlaces(hs) == {i \in DOMAIN hs : ~IsBearer(hs[i])}

\* The plain headers and the bearer headers are picked from the list.
LEMMA PlainIsPicked ==
  ASSUME NEW hs
  PROVE  Plain(hs) = FlattenSeq(Picked(hs, PlainPlaces(hs))) /\ Bearers(hs) = FlattenSeq(Picked(hs, BearerPlaces(hs)))
<1>1. [i \in DOMAIN hs |-> IF IsBearer(hs[i]) THEN <<>> ELSE <<hs[i]>>] = Picked(hs, PlainPlaces(hs))
  BY DEF Picked, PlainPlaces
<1>2. [i \in DOMAIN hs |-> IF IsBearer(hs[i]) THEN <<hs[i]>> ELSE <<>>] = Picked(hs, BearerPlaces(hs))
  BY DEF Picked, BearerPlaces
<1>. QED BY <1>1, <1>2 DEF Plain, Bearers

\* Of the headers, the bearer ones are those that authorize.
LEMMA HeadersAre ==
  ASSUME NEW hs \in Seq(HeaderSet)
  PROVE  /\ Len(hs) \in Nat /\ DOMAIN hs = 1 .. Len(hs)
         /\ \A i \in 1 .. Len(hs) : hs[i] \in HeaderSet /\ IsBearer(hs[i]) = (hs[i].name = Authorization)
<1>1. Len(hs) \in Nat /\ DOMAIN hs = 1 .. Len(hs) /\ \A i \in 1 .. Len(hs) : hs[i] \in HeaderSet
  BY LenProperties, ElementOfSeq
<1>2. \A h \in HeaderSet : IsBearer(h) = (h.name = Authorization)
  BY DEF HeaderSet, IsBearer
<1>. QED BY <1>1, <1>2

\* The headers without the bearer ones hold no bearer one, and are what they are.
LEMMA PlainIsPlain ==
  ASSUME NEW hs \in Seq(HeaderSet)
  PROVE  /\ Plain(hs) \in Seq(HeaderSet) /\ Bearers(Plain(hs)) = <<>> /\ Plain(Plain(hs)) = Plain(hs)
<1> DEFINE ps == Plain(hs)
           places == PlainPlaces(hs)
<1>1. ps \in Seq(HeaderSet) /\ \E from : Keeps(hs, Picked(hs, places), ps, Len(hs), from)
  <2>1. ps = FlattenSeq(Picked(hs, places))
    BY PlainIsPicked
  <2>. QED BY <2>1, PickedInOrder
<1>2. \A i \in 1 .. Len(hs) : Picked(hs, places)[i] # <<>> => ~IsBearer(hs[i])
  <2>1. ASSUME NEW i \in 1 .. Len(hs), IsBearer(hs[i]) PROVE Picked(hs, places)[i] = <<>>
    <3>1. i \notin places
      BY <2>1 DEF PlainPlaces
    <3>. QED BY <3>1, PickedParts, HeadersAre
  <2>. QED BY <2>1
<1> HIDE DEF places
<1>3. \A i \in 1 .. Len(ps) : ~IsBearer(ps[i])
  <2> HIDE DEF ps
  <2>. QED BY <1>1, <1>2 DEF Keeps
<1>4. \A i \in 1 .. Len(ps) : i \notin BearerPlaces(ps) /\ i \in PlainPlaces(ps)
  <2>1. DOMAIN ps = 1 .. Len(ps)
    BY <1>1, HeadersAre
  <2>. QED BY <1>3, <2>1 DEF BearerPlaces, PlainPlaces
<1> HIDE DEF ps
<1>5. Plain(ps) = ps
  BY <1>1, <1>4, PlainIsPicked, PickedAll
<1>6. Bearers(ps) = <<>>
  BY <1>1, <1>4, PlainIsPicked, PickedNone
<1>. QED BY <1>1, <1>5, <1>6 DEF ps

\* The bearer headers are those of the list, in order.
LEMMA BearersInOrder ==
  ASSUME NEW hs \in Seq(HeaderSet)
  PROVE  /\ Bearers(hs) \in Seq(HeaderSet)
         /\ Bearers(hs) = <<>> <=> \A i \in 1 .. Len(hs) : ~IsBearer(hs[i])
         /\ Bearers(hs) # <<>> =>
              \E k \in 1 .. Len(hs) : /\ Bearers(hs)[1] = hs[k] /\ IsBearer(hs[k])
                                      /\ \A j \in 1 .. Len(hs) : IsBearer(hs[j]) => k <= j
<1> DEFINE bs == Bearers(hs)
           places == BearerPlaces(hs)
           parts == Picked(hs, places)
<1>1. bs \in Seq(HeaderSet) /\ \E from : Keeps(hs, parts, bs, Len(hs), from)
  <2>1. bs = FlattenSeq(parts)
    BY PlainIsPicked
  <2>. QED BY <2>1, PickedInOrder
<1>2. \A i \in 1 .. Len(hs) : parts[i] # <<>> <=> IsBearer(hs[i])
  <2>1. ASSUME NEW i \in 1 .. Len(hs) PROVE IsBearer(hs[i]) <=> i \in places
    BY HeadersAre DEF BearerPlaces
  <2>2. \A i \in 1 .. Len(hs) : /\ i \in places => parts[i] = <<hs[i]>>
                                /\ i \notin places => parts[i] = <<>>
    BY PickedParts, HeadersAre
  <2>3. \A i \in 1 .. Len(hs) : <<hs[i]>> # <<>>
    OBVIOUS
  <2>. QED BY <2>1, <2>2, <2>3
<1>3. Len(bs) \in Nat /\ Len(hs) \in Nat
  BY <1>1, HeadersAre
<1> HIDE DEF bs, parts, places
<1>4. PICK from : Keeps(hs, parts, bs, Len(hs), from)
  BY <1>1
<1>5. (bs = <<>>) = (Len(bs) = 0)
  BY <1>1, EmptySeq
<1>6. ASSUME NEW j \in 1 .. Len(hs), IsBearer(hs[j]) PROVE \E i \in 1 .. Len(bs) : from[i] = j
  BY <1>2, <1>4, <1>6 DEF Keeps
<1>7. ASSUME Len(bs) # 0
      PROVE /\ from[1] \in 1 .. Len(hs) /\ bs[1] = hs[from[1]] /\ IsBearer(hs[from[1]])
            /\ \A j \in 1 .. Len(hs) : IsBearer(hs[j]) => from[1] <= j
  <2>1. 1 \in 1 .. Len(bs)
    BY <1>3, <1>7
  <2>2. from[1] \in 1 .. Len(hs) /\ bs[1] = hs[from[1]] /\ IsBearer(hs[from[1]])
    BY <1>2, <1>4, <2>1 DEF Keeps
  <2>3. ASSUME NEW j \in 1 .. Len(hs), IsBearer(hs[j]) PROVE from[1] <= j
    <3>1. PICK i \in 1 .. Len(bs) : from[i] = j
      BY <1>6, <2>3
    <3>2. i = 1 \/ 1 < i
      BY <1>3
    <3>3. 1 < i => from[1] < from[i]
      BY <1>4, <2>1 DEF Keeps
    <3>. QED BY <1>3, <2>2, <3>1, <3>2, <3>3
  <2>. QED BY <2>2, <2>3
<1>8. (bs = <<>>) <=> \A i \in 1 .. Len(hs) : ~IsBearer(hs[i])
  <2>1. ASSUME bs = <<>>, NEW j \in 1 .. Len(hs), IsBearer(hs[j]) PROVE FALSE
    <3>1. 1 .. Len(bs) = {}
      BY <1>5, <2>1
    <3>. QED BY <1>6, <2>1, <3>1
  <2>2. ASSUME bs # <<>> PROVE \E i \in 1 .. Len(hs) : IsBearer(hs[i])
    BY <1>5, <1>7, <2>2
  <2>. QED BY <2>1, <2>2
<1>9. bs # <<>> => \E k \in 1 .. Len(hs) : /\ bs[1] = hs[k] /\ IsBearer(hs[k])
                                           /\ \A j \in 1 .. Len(hs) : IsBearer(hs[j]) => k <= j
  BY <1>5, <1>7
<1>. QED BY <1>1, <1>8, <1>9 DEF bs

\* Without a bearer header, all are plain.
LEMMA AllPlain ==
  ASSUME NEW hs \in Seq(HeaderSet), Bearers(hs) = <<>>
  PROVE  Plain(hs) = hs
<1>1. \A i \in 1 .. Len(hs) : ~IsBearer(hs[i])
  BY BearersInOrder
<1>2. \A i \in 1 .. Len(hs) : i \in PlainPlaces(hs)
  BY <1>1, HeadersAre DEF PlainPlaces
<1>. QED BY <1>2, PlainIsPicked, PickedAll

\* The headers under a bearer token.
Bearer(token) == Header(Authorization, TRUE, token)
Places(hs) == {i \in DOMAIN hs : hs[i].name = Authorization}
FirstOf(places) == CHOOSE i \in places : \A j \in places : i <= j
SignedWith(hs, token) ==
  IF Places(hs) = {} THEN Append(hs, Bearer(token)) ELSE [hs EXCEPT ![FirstOf(Places(hs))] = Bearer(token)]

\* The headers of a form, by the mode of its sign-in.
LEMMA SignedIs ==
  ASSUME NEW f
  PROVE  SignedHeaders(f) = IF f.authMode # "bearer" THEN Plain(Headers(f, TRUE))
                            ELSE SignedWith(Headers(f, TRUE), f.token)
BY DEF SignedHeaders, SignedWith, Places, FirstOf, Bearer

\* The bearer header of a token.
LEMMA BearerIsHeader ==
  ASSUME NEW token \in Values
  PROVE  Bearer(token) \in HeaderSet /\ IsBearer(Bearer(token)) /\ Bearer(token).value = token
BY DEF Bearer, Header, HeaderSet, IsBearer

\* The first place of the authorization header.
LEMMA FirstPlace ==
  ASSUME NEW hs \in Seq(HeaderSet), Places(hs) # {}
  PROVE  /\ FirstOf(Places(hs)) \in 1 .. Len(hs) /\ IsBearer(hs[FirstOf(Places(hs))])
         /\ \A j \in 1 .. Len(hs) : IsBearer(hs[j]) => FirstOf(Places(hs)) <= j
<1> DEFINE places == Places(hs)
<1>1. places \subseteq 1 .. Len(hs) /\ Len(hs) \in Nat /\ \A j \in 1 .. Len(hs) : IsBearer(hs[j]) <=> j \in places
  BY HeadersAre DEF Places
<1>2. places \subseteq Nat
  BY <1>1
<1> HIDE DEF places
<1>3. \E i \in places : \A j \in places : i <= j
  BY <1>2, LeastOf DEF places
<1>4. FirstOf(places) \in places /\ \A j \in places : FirstOf(places) <= j
  BY <1>3 DEF FirstOf
<1>. QED BY <1>1, <1>4 DEF places

\* One bearer header more, behind the rest.
LEMMA BearerBehind ==
  ASSUME NEW hs \in Seq(HeaderSet), NEW h \in HeaderSet, IsBearer(h)
  PROVE  Plain(Append(hs, h)) = Plain(hs)
<1> DEFINE more == Append(hs, h)
           one == <<h>>
           none == <<<<>>>>
           a == Picked(hs, PlainPlaces(hs))
           b == Picked(more, PlainPlaces(more))
<1>1. /\ more \in Seq(HeaderSet) /\ Len(more) = Len(hs) + 1 /\ Len(hs) \in Nat
      /\ (\A i \in 1 .. Len(hs) : more[i] = hs[i]) /\ more[Len(hs) + 1] = h
  BY AppendProperties, LenProperties
<1>2. a \in Lists(HeaderSet) /\ Len(a) = Len(hs)
  BY PickedParts
<1>3. /\ none \in Lists(HeaderSet) /\ Len(none) = 1 /\ none[1] = <<>>
      /\ one \in Seq(HeaderSet) /\ Len(one) = 1
  <2> DEFINE T == Seq(HeaderSet)
  <2>1. <<>> \in T
    BY EmptySeq
  <2> HIDE DEF T
  <2>2. none \in Seq(T) /\ Len(none) = 1 /\ none[1] = <<>>
    BY <2>1
  <2>. QED BY <2>2 DEF Lists, T
<1>4. FlattenSeq(none) = <<>>
  <2> HIDE DEF none, one
  <2>1. \A i \in 1 .. Len(one) : none[i] = <<>>
    BY <1>3
  <2>. QED BY <1>3, <2>1, FlatNone
<1>5. \A i \in 1 .. Len(hs) + 1 : b[i] = IF i <= Len(hs) THEN a[i] ELSE none[1]
  <2>1. ASSUME NEW i \in 1 .. Len(hs) PROVE b[i] = a[i]
    <3>1. i \in DOMAIN more /\ i \in DOMAIN hs /\ more[i] = hs[i]
      BY <1>1, HeadersAre
    <3>. QED BY <3>1 DEF Picked, PlainPlaces
  <2>2. b[Len(hs) + 1] = <<>>
    <3>1. Len(hs) + 1 \in DOMAIN more /\ IsBearer(more[Len(hs) + 1])
      BY <1>1, HeadersAre
    <3>. QED BY <3>1 DEF Picked, PlainPlaces
  <2>. QED BY <1>1, <1>3, <2>1, <2>2
<1>6. b = a \o none
  <2> DEFINE T == Seq(HeaderSet)
             c == a \o none
  <2>1. a \in Seq(T) /\ none \in Seq(T) /\ b \in Seq(T) /\ Len(b) = Len(hs) + 1
    BY <1>1, <1>2, <1>3, PickedParts DEF Lists
  <2> HIDE DEF T, none, a, b
  <2>2. c \in Seq(T) /\ Len(c) = Len(hs) + 1 /\ \A i \in 1 .. Len(hs) + 1 : c[i] = IF i <= Len(hs) THEN a[i] ELSE none[i - Len(hs)]
    <3>1. /\ a \o none \in Seq(T) /\ Len(a \o none) = Len(a) + Len(none)
          /\ \A i \in 1 .. Len(a) + Len(none) : (a \o none)[i] = IF i <= Len(a) THEN a[i] ELSE none[i - Len(a)]
      BY <2>1, ConcatProperties
    <3>. QED BY <1>2, <1>3, <3>1
  <2>3. \A i \in 1 .. Len(hs) + 1 : ~(i <= Len(hs)) => i - Len(hs) = 1
    BY <1>1
  <2>4. \A i \in 1 .. Len(hs) + 1 : b[i] = c[i]
    <3> HIDE DEF c
    <3>. QED BY <1>5, <2>2, <2>3
  <2> HIDE DEF c
  <2>5. b = c
    BY <2>1, <2>2, <2>4, SeqEqual
  <2>. QED BY <2>5 DEF c
<1>7. FlattenSeq(b) = FlattenSeq(a) \o FlattenSeq(none)
  <2> HIDE DEF a, b, none
  <2>. QED BY <1>2, <1>3, <1>6, FlatConcat
<1>8. FlattenSeq(a) \in Seq(HeaderSet)
  BY PickedInOrder
<1>9. FlattenSeq(a) \o <<>> = FlattenSeq(a)
  BY <1>8, ConcatEmptySeq
<1>10. FlattenSeq(b) = FlattenSeq(a)
  <2> HIDE DEF a, b, none
  <2>. QED BY <1>4, <1>7, <1>9
<1>. QED BY <1>10, PlainIsPicked

\* A bearer header in the place of another.
LEMMA BearerOver ==
  ASSUME NEW hs \in Seq(HeaderSet), NEW h \in HeaderSet, IsBearer(h), NEW k \in 1 .. Len(hs), IsBearer(hs[k])
  PROVE  Plain([hs EXCEPT ![k] = h]) = Plain(hs)
<1> DEFINE new == [hs EXCEPT ![k] = h]
<1>1. DOMAIN hs = 1 .. Len(hs) /\ DOMAIN new = DOMAIN hs
  BY HeadersAre
<1>2. \A i \in DOMAIN hs : new[i] = IF i = k THEN h ELSE hs[i]
  OBVIOUS
<1> HIDE DEF new
<1>3. Picked(new, PlainPlaces(new)) = Picked(hs, PlainPlaces(hs))
  <2>1. PlainPlaces(new) = PlainPlaces(hs) /\ k \notin PlainPlaces(hs)
    BY <1>1, <1>2 DEF PlainPlaces
  <2>. QED BY <1>1, <1>2, <2>1 DEF Picked
<1>. QED BY <1>3, PlainIsPicked DEF new

\* What the sign-in makes of the headers.
LEMMA SignedWithIs ==
  ASSUME NEW hs \in Seq(HeaderSet), NEW token \in Values
  PROVE  /\ SignedWith(hs, token) \in Seq(HeaderSet) /\ Plain(SignedWith(hs, token)) = Plain(hs)
         /\ Bearers(SignedWith(hs, token)) # <<>>
         /\ Bearers(hs) # <<>> /\ token = Bearers(hs)[1].value => SignedWith(hs, token) = hs
<1> DEFINE new == SignedWith(hs, token)
           h == Bearer(token)
           k == FirstOf(Places(hs))
<1>1. h \in HeaderSet /\ IsBearer(h) /\ h.value = token
  BY BearerIsHeader
<1>2. /\ Len(hs) \in Nat /\ DOMAIN hs = 1 .. Len(hs)
      /\ \A i \in 1 .. Len(hs) : hs[i] \in HeaderSet /\ IsBearer(hs[i]) = (hs[i].name = Authorization)
  BY HeadersAre
<1>3. CASE Places(hs) = {}
  <2>1. new = Append(hs, h)
    BY <1>3 DEF SignedWith
  <2> HIDE DEF h, new
  <2>2. /\ new \in Seq(HeaderSet) /\ Len(new) = Len(hs) + 1 /\ new[Len(hs) + 1] = h
    BY <1>1, <2>1, AppendProperties
  <2>3. Plain(new) = Plain(hs)
    BY <1>1, <2>1, BearerBehind
  <2>4. Len(hs) + 1 \in 1 .. Len(new) /\ IsBearer(new[Len(hs) + 1])
    BY <1>1, <1>2, <2>2
  <2>5. Bearers(new) # <<>>
    BY <2>2, <2>4, BearersInOrder
  <2>6. \A i \in 1 .. Len(hs) : ~IsBearer(hs[i])
    BY <1>2, <1>3 DEF Places
  <2>7. Bearers(hs) = <<>>
    BY <2>6, BearersInOrder
  <2>. QED BY <2>2, <2>3, <2>5, <2>7 DEF new
<1>4. CASE Places(hs) # {}
  <2>1. /\ k \in 1 .. Len(hs) /\ IsBearer(hs[k])
        /\ \A j \in 1 .. Len(hs) : IsBearer(hs[j]) => k <= j
    BY <1>4, FirstPlace
  <2>2. new = [hs EXCEPT ![k] = h]
    BY <1>4 DEF SignedWith
  <2> HIDE DEF h, k, new
  <2>3. new \in Seq(HeaderSet) /\ Len(new) = Len(hs) /\ new[k] = h
    <3>1. new \in Seq(HeaderSet) /\ Len(new) = Len(hs)
      BY <1>1, <2>1, <2>2, ExceptSeq
    <3>. QED BY <1>2, <2>1, <2>2, <3>1
  <2>4. Plain(new) = Plain(hs)
    BY <1>1, <2>1, <2>2, BearerOver
  <2>5. Bearers(new) # <<>>
    BY <1>1, <2>1, <2>3, BearersInOrder
  <2>6. ASSUME Bearers(hs) # <<>>, token = Bearers(hs)[1].value PROVE new = hs
    <3>1. PICK first \in 1 .. Len(hs) : /\ Bearers(hs)[1] = hs[first] /\ IsBearer(hs[first])
                                        /\ \A j \in 1 .. Len(hs) : IsBearer(hs[j]) => first <= j
      BY <2>6, BearersInOrder
    <3>2. first = k
      <4>1. first <= k /\ k <= first /\ first \in Nat /\ k \in Nat
        BY <1>2, <2>1, <3>1
      <4>. QED BY <4>1
    <3>3. hs[k] \in HeaderSet /\ hs[k].value = token /\ IsBearer(hs[k])
      BY <1>2, <2>1, <2>6, <3>1, <3>2
    <3>4. hs[k] = h
      BY <1>1, <3>3 DEF HeaderSet, IsBearer
    <3>. QED BY <1>2, <2>1, <2>2, <3>4
  <2>. QED BY <2>3, <2>4, <2>5, <2>6 DEF new
<1>. QED BY <1>3, <1>4

\* A list with a header of a name put.
LEMMA PutByNameIs ==
  ASSUME NEW x \in Seq(HeaderSet), NEW h \in HeaderSet
  PROVE  /\ PutByName(x, h) \in Seq(HeaderSet)
         /\ Distinct(x) => Distinct(PutByName(x, h))
         /\ (\A i \in 1 .. Len(x) : x[i].name # h.name) => PutByName(x, h) = Append(x, h)
<1>1. Len(x) \in Nat /\ DOMAIN x = 1 .. Len(x) /\ \A i \in 1 .. Len(x) : x[i] \in HeaderSet
  BY HeadersAre
<1> DEFINE p == PutByName(x, h)
<1>2. CASE \E i \in DOMAIN x : x[i].name = h.name
  <2>1. p = [i \in 1 .. Len(x) |-> IF x[i].name = h.name THEN h ELSE x[i]]
    BY <1>1, <1>2 DEF PutByName
  <2> HIDE DEF p
  <2>2. p = [i \in 1 .. Len(x) |-> p[i]] /\ \A i \in 1 .. Len(x) : p[i] \in HeaderSet /\ p[i].name = x[i].name
    BY <1>1, <2>1
  <2>3. p \in Seq(HeaderSet) /\ Len(p) = Len(x)
    BY <1>1, <2>2, IsASeq
  <2>4. Distinct(x) => Distinct(p)
    BY <2>2, <2>3 DEF Distinct
  <2>. QED BY <1>1, <1>2, <2>3, <2>4 DEF p
<1>3. CASE ~\E i \in DOMAIN x : x[i].name = h.name
  <2>1. p = Append(x, h)
    BY <1>3 DEF PutByName
  <2> HIDE DEF p
  <2>2. /\ p \in Seq(HeaderSet) /\ Len(p) = Len(x) + 1 /\ p[Len(x) + 1] = h
        /\ \A i \in 1 .. Len(x) : p[i] = x[i]
    BY <2>1, AppendProperties
  <2>3. Distinct(x) => Distinct(p)
    <3>1. ASSUME Distinct(x), NEW i \in 1 .. Len(p), NEW j \in 1 .. Len(p), p[i].name = p[j].name PROVE i = j
      <4>1. (i \in 1 .. Len(x) \/ i = Len(x) + 1) /\ (j \in 1 .. Len(x) \/ j = Len(x) + 1)
        BY <1>1, <2>2
      <4>2. \A q \in 1 .. Len(x) : x[q].name # h.name
        BY <1>1, <1>3
      <4>. QED BY <2>2, <3>1, <4>1, <4>2 DEF Distinct
    <3>. QED BY <3>1 DEF Distinct
  <2>. QED BY <2>1, <2>2, <2>3 DEF p
<1>. QED BY <1>2, <1>3

\* The headers are put one after the other.
LEMMA PutsByName ==
  ASSUME NEW hs \in Seq(HeaderSet)
  PROVE  \E put \in [0 .. Len(hs) -> Seq(HeaderSet)] :
           /\ put[0] = <<>> /\ ByName(hs) = put[Len(hs)]
           /\ \A i \in 1 .. Len(hs) : put[i] = PutByName(put[i - 1], hs[i])
<1> DEFINE N == Len(hs)
           S == Seq(HeaderSet)
           start == <<>>
           g == [i \in 1 .. N |-> [x \in S |-> PutByName(x, hs[i])]]
<1>1. N \in Nat /\ (\A i \in 1 .. N : hs[i] \in HeaderSet) /\ start \in S
  BY HeadersAre, EmptySeq
<1>2. g \in StepsTo(N, S)
  <2>1. ASSUME NEW i \in 1 .. N, NEW x \in S PROVE PutByName(x, hs[i]) \in S
    <3>1. x \in Seq(HeaderSet) /\ hs[i] \in HeaderSet
      BY <1>1
    <3> HIDE DEF N, g
    <3>2. PutByName(x, hs[i]) \in Seq(HeaderSet)
      BY <3>1, PutByNameIs
    <3>. QED BY <3>2
  <2> HIDE DEF S, N
  <2>. QED BY <2>1 DEF StepsTo
<1>3. PICK f \in [0 .. N -> S] : f = [i \in 0 .. N |-> IF i = 0 THEN start ELSE g[i][f[i - 1]]]
  <2>1. start \in S /\ N \in Nat
    BY <1>1
  <2> HIDE DEF g, S, N, start
  <2>. QED BY <1>2, <2>1, BoundedRecursion
<1>4. f = [i \in 0 .. N |-> IF i = 0 THEN start ELSE PutByName(f[i - 1], hs[i])]
  <2>1. ASSUME NEW i \in 0 .. N, i # 0 PROVE g[i][f[i - 1]] = PutByName(f[i - 1], hs[i])
    <3>1. i \in 1 .. N /\ i - 1 \in 0 .. N
      BY <1>1, <2>1
    <3>2. f[i - 1] \in S
      BY <3>1
    <3>. QED BY <3>1, <3>2
  <2>. QED BY <1>3, <2>1
<1> DEFINE put == CHOOSE c : c = [i \in 0 .. N |-> IF i = 0 THEN start ELSE PutByName(c[i - 1], hs[i])]
<1>5. put = [i \in 0 .. N |-> IF i = 0 THEN start ELSE PutByName(put[i - 1], hs[i])]
  <2> HIDE DEF N, start
  <2>. QED BY <1>4
<1>6. ByName(hs) = put[N]
  BY DEF ByName
<1> HIDE DEF put
<1>7. put[0] = start /\ \A i \in 1 .. N : put[i] = PutByName(put[i - 1], hs[i])
  <2>1. ASSUME NEW i \in 1 .. N PROVE put[i] = PutByName(put[i - 1], hs[i])
    <3>1. i \in 0 .. N /\ i # 0
      BY <1>1
    <3>. QED BY <1>5, <3>1
  <2>2. 0 \in 0 .. N
    BY <1>1
  <2>. QED BY <1>5, <2>1, <2>2
<1>8. \A i \in Nat : i <= N => put[i] \in S
  <2> DEFINE P == {i \in Nat : i <= N => put[i] \in S}
  <2>1. 0 \in P
    BY <1>1, <1>7
  <2>2. ASSUME NEW i \in P PROVE i + 1 \in P
    <3>1. SUFFICES ASSUME i + 1 <= N PROVE put[i + 1] \in S
      OBVIOUS
    <3>2. i \in Nat /\ (i <= N => put[i] \in S)
      OBVIOUS
    <3> HIDE DEF P
    <3>3. i + 1 \in 1 .. N /\ (i + 1) - 1 = i /\ i <= N
      BY <1>1, <3>1, <3>2
    <3>4. put[i + 1] = PutByName(put[i], hs[i + 1])
      BY <1>7, <3>3
    <3>5. hs[i + 1] \in HeaderSet /\ put[i] \in S
      BY <1>1, <3>2, <3>3
    <3>. QED BY <3>4, <3>5, PutByNameIs
  <2>3. P = Nat
    <3>1. P \subseteq Nat
      OBVIOUS
    <3> HIDE DEF P
    <3>. QED BY <2>1, <2>2, <3>1, Induction
  <2>. QED BY <2>3
<1>9. put \in [0 .. N -> S]
  <2>1. put = [i \in 0 .. N |-> put[i]]
    BY <1>5
  <2>2. \A i \in 0 .. N : put[i] \in S
    BY <1>1, <1>8
  <2>. QED BY <2>1, <2>2
<1>. QED BY <1>6, <1>7, <1>9

\* By name, no two have the same; a list where no two have the same stays as it is.
LEMMA ByNameIs ==
  ASSUME NEW hs \in Seq(HeaderSet)
  PROVE  /\ ByName(hs) \in Seq(HeaderSet) /\ Distinct(ByName(hs))
         /\ Distinct(hs) => ByName(hs) = hs
<1> DEFINE N == Len(hs)
<1>1. N \in Nat /\ \A i \in 1 .. N : hs[i] \in HeaderSet
  BY HeadersAre
<1>2. PICK put \in [0 .. N -> Seq(HeaderSet)] :
        /\ put[0] = <<>> /\ ByName(hs) = put[N]
        /\ \A i \in 1 .. N : put[i] = PutByName(put[i - 1], hs[i])
  BY PutsByName
<1>3. \A i \in Nat : i <= N => Distinct(put[i]) /\ (Distinct(hs) => put[i] = SubSeq(hs, 1, i))
  <2> DEFINE P == {i \in Nat : i <= N => Distinct(put[i]) /\ (Distinct(hs) => put[i] = SubSeq(hs, 1, i))}
  <2>1. 0 \in P
    <3>1. SubSeq(hs, 1, 0) = <<>>
      BY SubSeqEmpty
    <3>2. Len(<<>>) = 0 /\ 1 .. 0 = {}
      OBVIOUS
    <3>3. Distinct(<<>>)
      BY <3>2 DEF Distinct
    <3>. QED BY <1>2, <3>1, <3>3
  <2>2. ASSUME NEW i \in P PROVE i + 1 \in P
    <3>0. i \in Nat /\ i + 1 \in Nat
      OBVIOUS
    <3>1. SUFFICES ASSUME i + 1 <= N
                   PROVE  Distinct(put[i + 1]) /\ (Distinct(hs) => put[i + 1] = SubSeq(hs, 1, i + 1))
      BY <3>0
    <3>2. i <= N => Distinct(put[i]) /\ (Distinct(hs) => put[i] = SubSeq(hs, 1, i))
      OBVIOUS
    <3> HIDE DEF P
    <3>3. i + 1 \in 1 .. N /\ (i + 1) - 1 = i /\ i <= N /\ i \in 0 .. N
      BY <1>1, <3>0, <3>1
    <3>4. put[i + 1] = PutByName(put[i], hs[i + 1]) /\ put[i] \in Seq(HeaderSet) /\ hs[i + 1] \in HeaderSet
      BY <1>1, <1>2, <3>3
    <3>5. Distinct(put[i + 1])
      BY <3>2, <3>3, <3>4, PutByNameIs
    <3>6. ASSUME Distinct(hs) PROVE put[i + 1] = SubSeq(hs, 1, i + 1)
      <4>1. put[i] = SubSeq(hs, 1, i)
        BY <3>2, <3>3, <3>6
      <4>2. /\ Len(SubSeq(hs, 1, i)) = i
            /\ SubSeq(hs, 1, i + 1) = Append(SubSeq(hs, 1, i), hs[i + 1])
        BY <3>0, <3>1, OneLonger
      <4>3. \A j \in 1 .. i : SubSeq(hs, 1, i)[j] = hs[j]
        BY <3>0, <3>1, <1>1
      <4>4. \A j \in 1 .. i : j \in 1 .. N /\ j # i + 1
        BY <1>1, <3>0, <3>1
      <4>5. \A j \in 1 .. Len(put[i]) : put[i][j].name # hs[i + 1].name
        BY <3>3, <3>6, <4>1, <4>2, <4>3, <4>4 DEF Distinct
      <4>6. put[i + 1] = Append(put[i], hs[i + 1])
        BY <3>4, <4>5, PutByNameIs
      <4>. QED BY <4>1, <4>2, <4>6
    <3>. QED BY <3>5, <3>6
  <2>3. P = Nat
    <3>1. P \subseteq Nat
      OBVIOUS
    <3> HIDE DEF P
    <3>. QED BY <2>1, <2>2, <3>1, Induction
  <2>. QED BY <2>3
<1>4. SubSeq(hs, 1, N) = hs
  BY SubSeqFull
<1> HIDE DEF N
<1>5. N <= N /\ N \in 0 .. N
  BY <1>1
<1>. QED BY <1>1, <1>2, <1>3, <1>4, <1>5

\* The headers of the rows that are on, or off.
RowParts(rows, on) == [i \in DOMAIN rows |-> IF rows[i].enabled = on THEN <<rows[i].header>> ELSE <<>>]

\* The rows that are on, or off, make a list of headers.
LEMMA RowsHeaders ==
  ASSUME NEW rows \in Seq(RowSet), NEW on
  PROVE  RowParts(rows, on) \in Lists(HeaderSet) /\ FlattenSeq(RowParts(rows, on)) \in Seq(HeaderSet)
<1> DEFINE T == Seq(HeaderSet)
           p == RowParts(rows, on)
<1>1. Len(rows) \in Nat /\ DOMAIN rows = 1 .. Len(rows) /\ \A i \in 1 .. Len(rows) : rows[i] \in RowSet
  BY LenProperties, ElementOfSeq
<1>2. \A i \in 1 .. Len(rows) : <<rows[i].header>> \in T
  BY <1>1 DEF RowSet
<1>3. <<>> \in T
  BY EmptySeq
<1> HIDE DEF T
<1>4. p = [i \in 1 .. Len(rows) |-> p[i]] /\ \A i \in 1 .. Len(rows) : p[i] \in T
  BY <1>1, <1>2, <1>3 DEF RowParts
<1> HIDE DEF p
<1>5. p \in Seq(T)
  BY <1>1, <1>4, IsASeq
<1>6. p \in Lists(HeaderSet)
  BY <1>5 DEF Lists, T
<1>7. FlattenSeq(p) \in Seq(HeaderSet)
  BY <1>6, FlatIsSeq
<1>. QED BY <1>6, <1>7 DEF p

\* The rows of a file: its headers on, its disabled headers off.
RowsOf(hs, on) == [i \in DOMAIN hs |-> Row(hs[i], on)]

\* The headers of the rows of a list are the list.
LEMMA RowsOfIs ==
  ASSUME NEW hs \in Seq(HeaderSet), NEW on \in BOOLEAN
  PROVE  RowsOf(hs, on) \in Seq(RowSet) /\ Len(RowsOf(hs, on)) = Len(hs)
         /\ \A way \in BOOLEAN : FlattenSeq(RowParts(RowsOf(hs, on), way)) = IF way = on THEN hs ELSE <<>>
<1> DEFINE rows == RowsOf(hs, on)
<1>1. Len(hs) \in Nat /\ DOMAIN hs = 1 .. Len(hs) /\ \A i \in 1 .. Len(hs) : hs[i] \in HeaderSet
  BY HeadersAre
<1>2. rows = [i \in 1 .. Len(hs) |-> rows[i]] /\ \A i \in 1 .. Len(hs) : rows[i] \in RowSet
  BY <1>1 DEF RowsOf, Row, RowSet
<1>3. \A i \in 1 .. Len(hs) : rows[i].enabled = on /\ rows[i].header = hs[i]
  BY <1>1 DEF RowsOf, Row
<1> HIDE DEF rows
<1>4. rows \in Seq(RowSet) /\ Len(rows) = Len(hs) /\ DOMAIN rows = 1 .. Len(hs)
  BY <1>1, <1>2, IsASeq
<1>5. ASSUME NEW way \in BOOLEAN PROVE FlattenSeq(RowParts(rows, way)) = IF way = on THEN hs ELSE <<>>
  <2> DEFINE p == RowParts(rows, way)
  <2>1. \A i \in 1 .. Len(hs) : p[i] = IF way = on THEN <<hs[i]>> ELSE <<>>
    BY <1>3, <1>4 DEF RowParts
  <2>2. Len(p) = Len(hs)
    <3>1. DOMAIN p = 1 .. Len(hs)
      BY <1>4 DEF RowParts
    <3>. QED BY <1>1, <3>1
  <2>3. p \in Lists(HeaderSet)
    BY <1>4, RowsHeaders
  <2> HIDE DEF p
  <2>4. way = on => FlattenSeq(p) = hs
    BY <2>1, <2>2, <2>3, FlatAll
  <2>5. way # on => FlattenSeq(p) = <<>>
    BY <2>1, <2>2, <2>3, FlatNone
  <2>. QED BY <2>4, <2>5 DEF p
<1>. QED BY <1>4, <1>5 DEF rows

\* The rows of two lists.
LEMMA RowsOfBoth ==
  ASSUME NEW a \in Seq(RowSet), NEW b \in Seq(RowSet), NEW on
  PROVE  FlattenSeq(RowParts(a \o b, on)) = FlattenSeq(RowParts(a, on)) \o FlattenSeq(RowParts(b, on))
<1> DEFINE n == Len(a)
           m == Len(b)
           c == a \o b
           pa == RowParts(a, on)
           pb == RowParts(b, on)
           pc == RowParts(c, on)
           T == Seq(HeaderSet)
<1>1. /\ n \in Nat /\ m \in Nat /\ DOMAIN a = 1 .. n /\ DOMAIN b = 1 .. m
  BY LenProperties
<1>2. /\ c \in Seq(RowSet) /\ Len(c) = n + m
      /\ \A i \in 1 .. n + m : c[i] = IF i <= n THEN a[i] ELSE b[i - n]
  BY ConcatProperties
<1>3. DOMAIN c = 1 .. n + m
  BY <1>2, LenProperties
<1>4. pa \in Lists(HeaderSet) /\ pb \in Lists(HeaderSet) /\ pc \in Lists(HeaderSet)
  BY <1>2, RowsHeaders
<1>5. \A i \in 1 .. n + m : (i <= n => i \in 1 .. n) /\ (~(i <= n) => i - n \in 1 .. m)
  BY <1>1
<1> HIDE DEF n, m, c
<1>6. DOMAIN pa = 1 .. n /\ DOMAIN pb = 1 .. m /\ DOMAIN pc = 1 .. n + m
  BY <1>1, <1>3 DEF RowParts
<1>7. \A i \in 1 .. n + m : pc[i] = IF i <= n THEN pa[i] ELSE pb[i - n]
  BY <1>1, <1>2, <1>3, <1>5 DEF RowParts
<1> HIDE DEF pa, pb, pc
<1>8. pa \in Seq(T) /\ pb \in Seq(T) /\ pc \in Seq(T)
  BY <1>4 DEF Lists
<1> HIDE DEF T
<1>9. Len(pa) = n /\ Len(pb) = m /\ Len(pc) = n + m
  <2>1. /\ Len(pa) \in Nat /\ DOMAIN pa = 1 .. Len(pa)
        /\ Len(pb) \in Nat /\ DOMAIN pb = 1 .. Len(pb)
        /\ Len(pc) \in Nat /\ DOMAIN pc = 1 .. Len(pc)
    BY <1>8, LenProperties
  <2>. QED BY <1>1, <1>6, <2>1
<1>10. pc = pa \o pb
  <2>1. /\ pa \o pb \in Seq(T) /\ Len(pa \o pb) = Len(pa) + Len(pb)
        /\ \A i \in 1 .. Len(pa) + Len(pb) : (pa \o pb)[i] = IF i <= Len(pa) THEN pa[i] ELSE pb[i - Len(pa)]
    BY <1>8, ConcatProperties
  <2> DEFINE q == pa \o pb
  <2>2. q \in Seq(T) /\ Len(q) = Len(pc) /\ \A i \in 1 .. Len(pc) : pc[i] = q[i]
    BY <1>7, <1>9, <2>1
  <2> HIDE DEF q
  <2>3. pc = q
    BY <1>8, <2>2, SeqEqual
  <2>. QED BY <2>3 DEF q
<1>11. FlattenSeq(pa \o pb) = FlattenSeq(pa) \o FlattenSeq(pb)
  BY <1>4, FlatConcat
<1>. QED BY <1>10, <1>11 DEF pa, pb, pc, c

\* The sign-in of a form.
LEMMA Signed ==
  ASSUME NEW f \in Forms
  PROVE  /\ Headers(f, TRUE) \in Seq(HeaderSet) /\ Headers(f, FALSE) \in Seq(HeaderSet)
         /\ SignedHeaders(f) \in Seq(HeaderSet) /\ Plain(SignedHeaders(f)) = Plain(Headers(f, TRUE))
         /\ f.authMode = "bearer" <=> Bearers(SignedHeaders(f)) # <<>>
         /\ (/\ f.authMode = "bearer" /\ Bearers(Headers(f, TRUE)) # <<>>
             /\ f.token = Bearers(Headers(f, TRUE))[1].value) => SignedHeaders(f) = Headers(f, TRUE)
         /\ f.authMode # "bearer" /\ Bearers(Headers(f, TRUE)) = <<>> => SignedHeaders(f) = Headers(f, TRUE)
<1>1. f.rows \in Seq(RowSet) /\ f.token \in Values
  BY DEF Forms
<1>2. \A on : Headers(f, on) = FlattenSeq(RowParts(f.rows, on))
  BY DEF Headers, RowParts
<1> DEFINE hs == Headers(f, TRUE)
           new == SignedHeaders(f)
<1>3. hs \in Seq(HeaderSet) /\ Headers(f, FALSE) \in Seq(HeaderSet)
  BY <1>1, <1>2, RowsHeaders
<1>4. new = IF f.authMode # "bearer" THEN Plain(hs) ELSE SignedWith(hs, f.token)
  BY SignedIs
<1> HIDE DEF hs, new
<1>5. CASE f.authMode = "bearer"
  <2>1. new = SignedWith(hs, f.token)
    BY <1>4, <1>5
  <2>2. /\ new \in Seq(HeaderSet) /\ Plain(new) = Plain(hs) /\ Bearers(new) # <<>>
        /\ Bearers(hs) # <<>> /\ f.token = Bearers(hs)[1].value => new = hs
    BY <1>1, <1>3, <2>1, SignedWithIs
  <2>. QED BY <1>3, <1>5, <2>2 DEF hs, new
<1>6. CASE f.authMode # "bearer"
  <2>1. new = Plain(hs)
    BY <1>4, <1>6
  <2>2. new \in Seq(HeaderSet) /\ Plain(new) = Plain(hs) /\ Bearers(new) = <<>>
    BY <1>3, <2>1, PlainIsPlain
  <2>3. Bearers(hs) = <<>> => new = hs
    BY <1>3, <2>1, AllPlain
  <2>. QED BY <1>3, <1>6, <2>2, <2>3 DEF hs, new
<1>. QED BY <1>5, <1>6

\* The modes of a sign-in.
LEMMA AuthModes ==
  ASSUME NEW m, GoodModel(m)
  PROVE  /\ AuthModeOf(m) \in {Unset, "basic", "bearer", "oauth2"}
         /\ AuthModeOf(m) = "oauth2" <=> m.auth # Unset
         /\ AuthModeOf(m) = "basic" <=> m.auth = Unset /\ m.user # Unset
         /\ AuthModeOf(m) = "bearer" <=> Bearers(m.headers) # <<>>
<1>1. m.headers \in Seq(HeaderSet)
  BY DEF GoodModel, Models
<1>2. (\E i \in DOMAIN m.headers : IsBearer(m.headers[i])) <=> Bearers(m.headers) # <<>>
  BY <1>1, HeadersAre, BearersInOrder
<1>3. m.auth # Unset \/ m.user # Unset => Bearers(m.headers) = <<>>
  BY DEF GoodModel
<1>4. CASE m.auth # Unset
  BY <1>3, <1>4 DEF AuthModeOf, Unset
<1>5. CASE m.auth = Unset /\ m.user # Unset
  BY <1>3, <1>5 DEF AuthModeOf, Unset
<1>6. CASE m.auth = Unset /\ m.user = Unset
  BY <1>2, <1>6 DEF AuthModeOf, Unset
<1>. QED BY <1>4, <1>5, <1>6

\* The modes of a body.
LEMMA BodyModes ==
  ASSUME NEW m, GoodModel(m)
  PROVE  /\ BodyModeOf(m) \in {"raw", "graphql", "multipart"}
         /\ BodyModeOf(m) = "graphql" <=> m.graphql # Unset
         /\ BodyModeOf(m) = "multipart" <=> m.formFields # Unset
BY DEF BodyModeOf, GoodModel

\* The rows of the variables of a file.
VarRowsOf(m) ==
  [i \in DOMAIN m.variables |-> [v |-> m.variables[i], secret |-> m.variables[i].name \in m.secrets]]

\* The rows of a file's variables give the variables and the secrets back.
LEMMA VarRowsAre ==
  ASSUME NEW m, GoodModel(m)
  PROVE  /\ VarRowsOf(m) \in Seq(VarRowSet)
         /\ [i \in DOMAIN VarRowsOf(m) |-> VarRowsOf(m)[i].v] = m.variables
         /\ {VarRowsOf(m)[i].v.name : i \in {k \in DOMAIN VarRowsOf(m) : VarRowsOf(m)[k].secret}} = m.secrets
<1> DEFINE vs == m.variables
           rows == VarRowsOf(m)
<1>1. vs \in Seq(VarSet) /\ m.secrets \subseteq {vs[i].name : i \in DOMAIN vs}
  BY DEF GoodModel, Models
<1>2. Len(vs) \in Nat /\ DOMAIN vs = 1 .. Len(vs) /\ \A i \in 1 .. Len(vs) : vs[i] \in VarSet
  BY <1>1, LenProperties, ElementOfSeq
<1>3. \A i \in 1 .. Len(vs) : rows[i] = [v |-> vs[i], secret |-> vs[i].name \in m.secrets]
  BY <1>2 DEF VarRowsOf
<1>4. rows = [i \in 1 .. Len(vs) |-> rows[i]] /\ DOMAIN rows = 1 .. Len(vs)
  BY <1>2 DEF VarRowsOf
<1>5. vs = [i \in 1 .. Len(vs) |-> vs[i]]
  BY <1>1, <1>2
<1> HIDE DEF rows, vs
<1>6. \A i \in 1 .. Len(vs) : /\ rows[i] \in VarRowSet /\ rows[i].v = vs[i]
                              /\ rows[i].secret <=> vs[i].name \in m.secrets
  <2>1. ASSUME NEW i \in 1 .. Len(vs) PROVE rows[i] \in VarRowSet /\ rows[i].v = vs[i] /\ (rows[i].secret <=> vs[i].name \in m.secrets)
    <3>1. vs[i] \in VarSet
      BY <1>2
    <3>2. CASE vs[i].name \in m.secrets
      <4>1. (vs[i].name \in m.secrets) = TRUE
        BY <3>2
      <4>2. rows[i] = [v |-> vs[i], secret |-> TRUE]
        BY <1>3, <4>1
      <4>. QED BY <3>1, <3>2, <4>2 DEF VarRowSet
    <3>3. CASE vs[i].name \notin m.secrets
      <4>1. (vs[i].name \in m.secrets) = FALSE
        BY <3>3
      <4>2. rows[i] = [v |-> vs[i], secret |-> FALSE]
        BY <1>3, <4>1
      <4>. QED BY <3>1, <3>3, <4>2 DEF VarRowSet
    <3>. QED BY <3>2, <3>3
  <2>. QED BY <2>1
<1>7. rows \in Seq(VarRowSet)
  BY <1>2, <1>4, <1>6, IsASeq
<1>8. [i \in DOMAIN rows |-> rows[i].v] = vs
  BY <1>4, <1>5, <1>6
<1>9. {rows[i].v.name : i \in {k \in DOMAIN rows : rows[k].secret}} = m.secrets
  <2> DEFINE named == {rows[i].v.name : i \in {k \in DOMAIN rows : rows[k].secret}}
  <2>1. ASSUME NEW x \in named PROVE x \in m.secrets
    BY <1>4, <1>6
  <2>2. ASSUME NEW x \in m.secrets PROVE x \in named
    <3>1. PICK i \in 1 .. Len(vs) : x = vs[i].name
      BY <1>1, <1>2
    <3>. QED BY <1>4, <1>6, <3>1
  <2> HIDE DEF named
  <2>3. named = m.secrets
    BY <2>1, <2>2
  <2>. QED BY <2>3 DEF named
<1>. QED BY <1>7, <1>8, <1>9 DEF rows, vs

\* A form that is filled has what the model says.
LEMMA Filled ==
  ASSUME NEW f \in Forms, NEW m, GoodModel(m)
  PROVE  Populate(f, m) \in Forms /\ Untouched(Populate(f, m), m, {})
<1> DEFINE new == Populate(f, m)
           on == RowsOf(m.headers, TRUE)
           off == RowsOf(m.disabled, FALSE)
<1>1. m \in Models /\ m.headers \in Seq(HeaderSet) /\ m.disabled \in Seq(HeaderSet)
  BY DEF GoodModel, Models
<1>2. /\ new.rows = on \o off /\ new.bodyMode = BodyModeOf(m) /\ new.bodyText = m.body
      /\ new.gqlQuery = (IF m.graphql # Unset THEN m.graphql ELSE f.gqlQuery)
      /\ new.formRows = (IF m.formFields # Unset THEN m.formFields ELSE f.formRows)
      /\ new.authMode = AuthModeOf(m)
      /\ new.user = (IF AuthModeOf(m) = "basic" THEN m.user ELSE f.user)
      /\ new.token = (IF AuthModeOf(m) = "bearer" THEN Bearers(m.headers)[1].value ELSE f.token)
      /\ new.oauth = (IF m.auth # Unset THEN m.auth ELSE f.oauth)
      /\ new.varRows = VarRowsOf(m)
      /\ new = [rows |-> new.rows, bodyMode |-> new.bodyMode, bodyText |-> new.bodyText,
                gqlQuery |-> new.gqlQuery, formRows |-> new.formRows, authMode |-> new.authMode,
                user |-> new.user, token |-> new.token, oauth |-> new.oauth, varRows |-> new.varRows]
  BY DEF Populate, RowsOf, AuthModeShown, VarRowsOf
<1>3. /\ on \in Seq(RowSet) /\ off \in Seq(RowSet)
      /\ FlattenSeq(RowParts(on, TRUE)) = m.headers /\ FlattenSeq(RowParts(on, FALSE)) = <<>>
      /\ FlattenSeq(RowParts(off, TRUE)) = <<>> /\ FlattenSeq(RowParts(off, FALSE)) = m.disabled
  BY <1>1, RowsOfIs
<1> HIDE DEF new, on, off
<1>4. Headers(new, TRUE) = m.headers /\ Headers(new, FALSE) = m.disabled
  <2>1. \A way : Headers(new, way) = FlattenSeq(RowParts(on, way)) \o FlattenSeq(RowParts(off, way))
    <3>1. \A way : Headers(new, way) = FlattenSeq(RowParts(new.rows, way))
      BY DEF Headers, RowParts
    <3>. QED BY <1>2, <1>3, <3>1, RowsOfBoth
  <2>2. m.headers \o <<>> = m.headers /\ <<>> \o m.disabled = m.disabled
    BY <1>1, ConcatEmptySeq
  <2>. QED BY <1>3, <2>1, <2>2
<1>5. /\ AuthModeOf(m) \in {Unset, "basic", "bearer", "oauth2"}
      /\ AuthModeOf(m) = "oauth2" <=> m.auth # Unset
      /\ AuthModeOf(m) = "bearer" <=> Bearers(m.headers) # <<>>
  BY AuthModes
<1>6. BodyModeOf(m) \in {"raw", "graphql", "multipart"}
  BY BodyModes
<1>7. VarsOf(new) = m.variables /\ SecretsOf(new) = m.secrets /\ new.varRows \in Seq(VarRowSet)
  BY <1>2, VarRowsAre DEF VarsOf, SecretsOf
<1>8. new.token \in Values
  <2>1. CASE AuthModeOf(m) = "bearer"
    <3>1. PICK k \in 1 .. Len(m.headers) : Bearers(m.headers)[1] = m.headers[k]
      BY <1>1, <1>5, <2>1, BearersInOrder
    <3>2. Bearers(m.headers)[1] \in HeaderSet
      BY <1>1, <3>1, HeadersAre
    <3>. QED BY <1>2, <2>1, <3>2 DEF HeaderSet
  <2>2. CASE AuthModeOf(m) # "bearer"
    BY <1>2, <2>2 DEF Forms
  <2>. QED BY <2>1, <2>2
<1>9. new.rows \in Seq(RowSet)
  BY <1>2, <1>3, ConcatProperties
<1>10. /\ new.bodyText \in BodyTexts
       /\ new.gqlQuery \in Queries /\ new.formRows \in FormData
       /\ new.user \in Users /\ new.oauth \in Grants
  BY <1>1, <1>2 DEF Models, Forms
<1>11. new \in Forms
  BY <1>2, <1>5, <1>6, <1>7, <1>8, <1>9, <1>10 DEF Forms
<1>12. Untouched(new, m, {})
  BY <1>2, <1>4, <1>5, <1>7 DEF Untouched
<1>. QED BY <1>11, <1>12 DEF new

\* A model is made of what its fields hold.
LEMMA ModelIsTyped ==
  ASSUME NEW user \in Users, NEW auth \in Grants,
         NEW headers \in Seq(HeaderSet), NEW disabled \in Seq(HeaderSet),
         NEW body \in BodyTexts,
         NEW graphql \in Queries, NEW formFields \in FormData,
         NEW variables \in Seq(VarSet), NEW secrets \in SUBSET {"V"}
  PROVE  [user |-> user, auth |-> auth, headers |-> headers, disabled |-> disabled,
          body |-> body, graphql |-> graphql, formFields |-> formFields,
          variables |-> variables, secrets |-> secrets] \in Models
BY DEF Models

\* A model that is assembled is one that the form gives back.
LEMMA AssembledIsGood ==
  ASSUME NEW f \in Forms, GoodModel(fileRef)
  PROVE  GoodModel(Assemble(f))
<1> DEFINE m == Assemble(f)
           vs == VarsOf(f)
<1>1. /\ m.user = (IF f.authMode = "basic" THEN f.user ELSE Unset)
      /\ m.auth = (IF f.authMode = "oauth2" THEN f.oauth ELSE Unset)
      /\ m.headers = SignedHeaders(f) /\ m.disabled = ByName(Headers(f, FALSE))
      /\ m.body = AssembledBody(f).body /\ m.graphql = AssembledBody(f).graphql
      /\ m.formFields = AssembledBody(f).formFields
      /\ m.variables = vs /\ m.secrets = SecretsOf(f)
      /\ m = [user |-> m.user, auth |-> m.auth, headers |-> m.headers, disabled |-> m.disabled,
              body |-> m.body, graphql |-> m.graphql, formFields |-> m.formFields,
              variables |-> m.variables, secrets |-> m.secrets]
  BY DEF Assemble, VarsOf, SecretsOf
<1>2. /\ m.body = (CASE f.bodyMode = "multipart" -> Unset [] f.bodyMode = "graphql" -> fileRef.body [] OTHER -> f.bodyText)
      /\ m.graphql = (IF f.bodyMode = "graphql" THEN f.gqlQuery ELSE Unset)
      /\ m.formFields = (IF f.bodyMode = "multipart" THEN f.formRows ELSE Unset)
  BY DEF AssembledBody, Assemble
<1>3. /\ m.headers \in Seq(HeaderSet)
      /\ f.authMode = "bearer" <=> Bearers(m.headers) # <<>>
  BY <1>1, Signed
<1>4. m.disabled \in Seq(HeaderSet) /\ Distinct(m.disabled)
  BY <1>1, Signed, ByNameIs
<1>5. /\ f.varRows \in Seq(VarRowSet) /\ f.bodyText \in BodyTexts
      /\ f.gqlQuery \in Queries /\ f.formRows \in FormData
      /\ f.user \in Users /\ f.oauth \in Grants
  BY DEF Forms
<1>6. fileRef.body \in BodyTexts
  BY DEF GoodModel, Models
<1> HIDE DEF m
<1>7. /\ vs \in Seq(VarSet)
      /\ SecretsOf(f) \subseteq {"V"} /\ SecretsOf(f) \subseteq {vs[i].name : i \in DOMAIN vs}
  <2>1. /\ Len(f.varRows) \in Nat /\ DOMAIN f.varRows = 1 .. Len(f.varRows)
        /\ \A i \in 1 .. Len(f.varRows) : f.varRows[i] \in VarRowSet
    BY <1>5, LenProperties, ElementOfSeq
  <2>2. DOMAIN vs = 1 .. Len(f.varRows) /\ \A i \in 1 .. Len(f.varRows) : vs[i] = f.varRows[i].v
    BY <2>1 DEF VarsOf
  <2>3. \A i \in 1 .. Len(f.varRows) : vs[i] \in VarSet /\ vs[i].name = "V"
    BY <2>1, <2>2 DEF VarRowSet, VarSet
  <2>4. vs = [i \in 1 .. Len(f.varRows) |-> vs[i]]
    BY <2>1 DEF VarsOf
  <2> HIDE DEF vs
  <2>5. vs \in Seq(VarSet)
    BY <2>1, <2>3, <2>4, IsASeq
  <2>6. \A x \in SecretsOf(f) : \E i \in 1 .. Len(f.varRows) : x = vs[i].name
    BY <2>1, <2>2 DEF SecretsOf
  <2>. QED BY <2>2, <2>3, <2>5, <2>6
<1> HIDE DEF vs
<1>8. /\ m.user \in Users /\ m.auth \in Grants
      /\ m.body \in BodyTexts
      /\ m.graphql \in Queries /\ m.formFields \in FormData
  BY <1>1, <1>2, <1>5, <1>6 DEF Users, Grants, BodyTexts, Queries, FormData
<1>9. m \in Models
  BY <1>1, <1>3, <1>4, <1>7, <1>8 DEF Models
<1>10. /\ m.auth # Unset => m.user = Unset
       /\ m.auth # Unset \/ m.user # Unset => Bearers(m.headers) = <<>>
  BY <1>1, <1>3
<1>11. /\ m.graphql # Unset => m.formFields = Unset
       /\ m.formFields # Unset => m.body = Unset
  BY <1>2
<1>12. m.secrets \subseteq {m.variables[i].name : i \in DOMAIN m.variables}
  BY <1>1, <1>7
<1>. QED BY <1>4, <1>9, <1>10, <1>11, <1>12 DEF GoodModel, m

\* What is written and read again is one too.
LEMMA RereadIsGood ==
  ASSUME NEW m, GoodModel(m)
  PROVE  GoodModel(Reread(m))
<1> DEFINE new == Reread(m)
           vs == m.variables
           ws == new.variables
<1>1. m \in Models /\ vs \in Seq(VarSet) /\ m.secrets \subseteq {vs[i].name : i \in DOMAIN vs}
  BY DEF GoodModel, Models
<1>2. Len(vs) \in Nat /\ DOMAIN vs = 1 .. Len(vs) /\ \A i \in 1 .. Len(vs) : vs[i] \in VarSet
  BY <1>1, LenProperties, ElementOfSeq
<1> DEFINE b == IF m.graphql = Unset THEN m.body ELSE IF m.graphql = "q" THEN "data of q" ELSE "data of r"
           w == [i \in DOMAIN vs |-> IF vs[i].name \in m.secrets THEN Var(Required) ELSE vs[i]]
<1>13. new = [m EXCEPT !.body = b, !.variables = w]
  BY DEF Reread
<1>4. /\ new.user = m.user /\ new.auth = m.auth /\ new.headers = m.headers /\ new.disabled = m.disabled
      /\ new.graphql = m.graphql /\ new.formFields = m.formFields /\ new.secrets = m.secrets
      /\ new.body = b /\ ws = w
      /\ new = [user |-> m.user, auth |-> m.auth, headers |-> m.headers, disabled |-> m.disabled,
                body |-> new.body, graphql |-> m.graphql, formFields |-> m.formFields,
                variables |-> ws, secrets |-> m.secrets]
  <2> HIDE DEF b, w, new, vs
  <2>. QED BY <1>1, <1>13 DEF Models
<1>3. ws = [i \in DOMAIN vs |-> IF vs[i].name \in m.secrets THEN Var(Required) ELSE vs[i]]
  BY <1>4
<1>5. Var(Required) \in VarSet /\ Var(Required).name = "V" /\ \A x \in VarSet : x.name = "V"
  BY DEF Var, VarSet
<1> HIDE DEF new, vs, ws, w
<1>6. /\ DOMAIN ws = 1 .. Len(vs) /\ ws = [i \in 1 .. Len(vs) |-> ws[i]]
      /\ \A i \in 1 .. Len(vs) : ws[i] \in VarSet /\ ws[i].name = vs[i].name
  BY <1>2, <1>3, <1>5
<1>7. ws \in Seq(VarSet)
  BY <1>2, <1>6, IsASeq
<1>8. new.body \in BodyTexts
  BY <1>1, <1>4 DEF Models, BodyTexts
<1> HIDE DEF b, w
<1>9. new \in Models
  <2>1. /\ m.user \in Users /\ m.auth \in Grants
        /\ m.headers \in Seq(HeaderSet) /\ m.disabled \in Seq(HeaderSet)
        /\ m.graphql \in Queries /\ m.formFields \in FormData /\ m.secrets \in SUBSET {"V"}
    BY <1>1 DEF Models
  <2>2. new = [user |-> m.user, auth |-> m.auth, headers |-> m.headers, disabled |-> m.disabled,
               body |-> new.body, graphql |-> m.graphql, formFields |-> m.formFields,
               variables |-> ws, secrets |-> m.secrets]
    BY <1>4
  <2> DEFINE body == new.body
             mapped == [user |-> m.user, auth |-> m.auth, headers |-> m.headers, disabled |-> m.disabled,
                        body |-> body, graphql |-> m.graphql, formFields |-> m.formFields,
                        variables |-> ws, secrets |-> m.secrets]
  <2>3. body \in BodyTexts
    BY <1>8
  <2> HIDE DEF body
  <2>4. mapped \in Models
    BY <1>7, <2>1, <2>3, ModelIsTyped
  <2>. QED BY <2>2, <2>4 DEF body
<1> USE DEF b
<1>10. new.secrets \subseteq {new.variables[i].name : i \in DOMAIN new.variables}
  <2>1. \A x \in m.secrets : \E i \in 1 .. Len(vs) : x = ws[i].name
    BY <1>1, <1>2, <1>6
  <2>. QED BY <1>4, <1>6, <2>1 DEF ws
<1>11. new.formFields # Unset => new.body = Unset
  BY <1>4 DEF GoodModel
<1>. QED BY <1>4, <1>9, <1>10, <1>11 DEF GoodModel, new

\* What a form makes of a good model says what the model said.
LEMMA FilledSaysTheSame ==
  ASSUME NEW f \in Forms, NEW m, GoodModel(m)
  PROVE  Same(Assemble(Populate(f, m)), m)
<1> DEFINE new == Populate(f, m)
           g == Assemble(new)
<1>1. /\ new \in Forms /\ Headers(new, TRUE) = m.headers /\ Headers(new, FALSE) = m.disabled
      /\ new.bodyMode = BodyModeOf(m) /\ new.authMode = AuthModeOf(m)
      /\ AuthModeOf(m) = "basic" => new.user = m.user
      /\ AuthModeOf(m) = "bearer" => new.token = Bearers(m.headers)[1].value
      /\ AuthModeOf(m) = "oauth2" => new.oauth = m.auth
      /\ m.graphql # Unset => new.gqlQuery = m.graphql
      /\ m.formFields # Unset => new.formRows = m.formFields
      /\ VarsOf(new) = m.variables /\ SecretsOf(new) = m.secrets
  BY Filled DEF Untouched
<1> HIDE DEF new
<1>2. /\ AuthModeOf(m) = "oauth2" <=> m.auth # Unset
      /\ AuthModeOf(m) = "basic" <=> m.auth = Unset /\ m.user # Unset
      /\ AuthModeOf(m) = "bearer" <=> Bearers(m.headers) # <<>>
      /\ m.auth # Unset => m.user = Unset
      /\ m.auth # Unset \/ m.user # Unset => Bearers(m.headers) = <<>>
  BY AuthModes DEF GoodModel
<1>3. /\ BodyModeOf(m) = "graphql" <=> m.graphql # Unset
      /\ BodyModeOf(m) = "multipart" <=> m.formFields # Unset
  BY BodyModes
<1>4. g.headers = m.headers
  <2>1. g.headers = SignedHeaders(new)
    BY DEF Assemble
  <2>. QED BY <1>1, <1>2, <2>1, Signed
<1>5. g.disabled = m.disabled
  <2>1. g.disabled = ByName(m.disabled)
    BY <1>1 DEF Assemble
  <2>2. m.disabled \in Seq(HeaderSet) /\ Distinct(m.disabled)
    BY DEF GoodModel, Models
  <2>. QED BY <2>1, <2>2, ByNameIs
<1>6. g.user = m.user /\ g.auth = m.auth
  <2>1. /\ g.user = (IF new.authMode = "basic" THEN new.user ELSE Unset)
        /\ g.auth = (IF new.authMode = "oauth2" THEN new.oauth ELSE Unset)
    BY DEF Assemble
  <2>. QED BY <1>1, <1>2, <2>1
<1>7. g.graphql = m.graphql /\ g.formFields = m.formFields
  <2>1. /\ g.graphql = (IF new.bodyMode = "graphql" THEN new.gqlQuery ELSE Unset)
        /\ g.formFields = (IF new.bodyMode = "multipart" THEN new.formRows ELSE Unset)
    BY DEF AssembledBody, Assemble
  <2>. QED BY <1>1, <1>3, <2>1
<1>8. g.variables = m.variables /\ g.secrets = m.secrets
  BY <1>1 DEF Assemble, VarsOf, SecretsOf
<1>. QED BY <1>4, <1>5, <1>6, <1>7, <1>8 DEF Same, new

\* A file that is opened has one kind of body.
LEMMA BodyIs ==
  ASSUME NEW b \in Bodies
  PROVE  /\ b.body \in {Unset, "text", "data of q"} /\ b.graphql \in {Unset, "q"} /\ b.formFields \in {Unset, "f"}
         /\ b.graphql # Unset => b.formFields = Unset
         /\ b.formFields # Unset => b.body = Unset
<1>1. \/ b = [body |-> Unset, graphql |-> Unset, formFields |-> Unset]
      \/ b = [body |-> "text", graphql |-> Unset, formFields |-> Unset]
      \/ b = [body |-> "data of q", graphql |-> "q", formFields |-> Unset]
      \/ b = [body |-> Unset, graphql |-> Unset, formFields |-> "f"]
  BY DEF Bodies
<1>2. CASE b = [body |-> Unset, graphql |-> Unset, formFields |-> Unset]
  BY <1>2
<1>3. CASE b = [body |-> "text", graphql |-> Unset, formFields |-> Unset]
  BY <1>3
<1>4. CASE b = [body |-> "data of q", graphql |-> "q", formFields |-> Unset]
  BY <1>4
<1>5. CASE b = [body |-> Unset, graphql |-> Unset, formFields |-> "f"]
  BY <1>5
<1>. QED BY <1>1, <1>2, <1>3, <1>4, <1>5

\* What the files that are opened, typed or pasted say.
LEMMA ModelIsGood ==
  ASSUME NEW s \in SignIns, NEW b \in Bodies, NEW hs \in Seq(HeaderSet), NEW disabled \in Seq(HeaderSet),
         NEW vs \in Seq(VarSet), NEW secrets \in SUBSET {"V"},
         Bearers(hs) = <<>>, Distinct(disabled), secrets \subseteq {vs[i].name : i \in DOMAIN vs}
  PROVE  GoodModel(Model(s, b, hs, disabled, vs, secrets))
<1> DEFINE m == Model(s, b, hs, disabled, vs, secrets)
<1>1. m = [user |-> s.user, auth |-> s.auth, headers |-> hs \o s.bearer, disabled |-> disabled,
           body |-> b.body, graphql |-> b.graphql, formFields |-> b.formFields,
           variables |-> vs, secrets |-> secrets]
  BY DEF Model
<1>2. /\ s.user \in {Unset, "u:p"} /\ s.auth \in {Unset, "grant"} /\ s.bearer \in Seq(HeaderSet)
      /\ s.auth # Unset => s.user = Unset
      /\ s.auth # Unset \/ s.user # Unset => s.bearer = <<>>
  <2> DEFINE h == Header(Authorization, TRUE, "t")
             none == <<>>
             one == <<h>>
  <2>1. h \in HeaderSet
    BY DEF Header, HeaderSet, Authorization, Values
  <2> HIDE DEF h
  <2>2. none \in Seq(HeaderSet) /\ one \in Seq(HeaderSet)
    BY <2>1
  <2>3. \/ s = [user |-> Unset, auth |-> Unset, bearer |-> none] \/ s = [user |-> "u:p", auth |-> Unset, bearer |-> none]
        \/ s = [user |-> Unset, auth |-> "grant", bearer |-> none] \/ s = [user |-> Unset, auth |-> Unset, bearer |-> one]
    BY DEF SignIns, h
  <2>4. none = <<>>
    OBVIOUS
  <2> HIDE DEF none, one
  <2>5. s.user \in {Unset, "u:p"} /\ s.auth \in {Unset, "grant"} /\ s.bearer \in {none, one}
    BY <2>3
  <2>6. s.auth # Unset => s.user = Unset
    BY <2>3
  <2>7. s.auth # Unset \/ s.user # Unset => s.bearer = none
    BY <2>3
  <2>. QED BY <2>2, <2>4, <2>5, <2>6, <2>7
<1>3. /\ b.body \in {Unset, "text", "data of q"} /\ b.graphql \in {Unset, "q"} /\ b.formFields \in {Unset, "f"}
      /\ b.graphql # Unset => b.formFields = Unset
      /\ b.formFields # Unset => b.body = Unset
  BY BodyIs
<1>4. hs \o s.bearer \in Seq(HeaderSet)
  BY <1>2, ConcatProperties
<1>5. s.auth # Unset \/ s.user # Unset => hs \o s.bearer = hs
  BY <1>2, ConcatEmptySeq
<1>6. m \in Models
  <2> DEFINE all == hs \o s.bearer
  <2> HIDE DEF all
  <2> DEFINE user == s.user
             auth == s.auth
             body == b.body
             graphql == b.graphql
             formFields == b.formFields
             mapped == [user |-> user, auth |-> auth, headers |-> all, disabled |-> disabled,
                        body |-> body, graphql |-> graphql, formFields |-> formFields,
                        variables |-> vs, secrets |-> secrets]
  <2>1. all \in Seq(HeaderSet)
    BY <1>4 DEF all
  <2>2. /\ user \in Users /\ auth \in Grants
        /\ body \in BodyTexts
        /\ graphql \in Queries /\ formFields \in FormData
    BY <1>2, <1>3 DEF Users, Grants, BodyTexts, Queries, FormData
  <2> HIDE DEF user, auth, body, graphql, formFields
  <2>3. mapped \in Models
    BY <2>1, <2>2, ModelIsTyped
  <2>. QED BY <1>1, <2>3 DEF all, user, auth, body, graphql, formFields
<1>7. /\ m.auth = s.auth /\ m.user = s.user /\ m.headers = hs \o s.bearer /\ m.disabled = disabled
      /\ m.graphql = b.graphql /\ m.formFields = b.formFields /\ m.body = b.body
      /\ m.variables = vs /\ m.secrets = secrets
  BY <1>1
<1> HIDE DEF m
<1>8. m.auth # Unset \/ m.user # Unset => Bearers(m.headers) = <<>>
  BY <1>5, <1>7
<1>. QED BY <1>2, <1>3, <1>6, <1>7, <1>8 DEF GoodModel, m

\* The empty list of headers.
LEMMA NoHeaders == Bearers(<<>>) = <<>> /\ Distinct(<<>>) /\ <<>> \in Seq(HeaderSet) /\ <<>> \in Seq(VarSet)
<1> DEFINE none == <<>>
<1>1. none \in Seq(HeaderSet) /\ Len(none) = 0 /\ 1 .. 0 = {}
  OBVIOUS
<1> HIDE DEF none
<1>2. \A i \in 1 .. Len(none) : ~IsBearer(none[i])
  BY <1>1
<1>3. Bearers(none) = <<>>
  BY <1>1, <1>2, BearersInOrder
<1>4. Distinct(none)
  BY <1>1 DEF Distinct
<1>. QED BY <1>3, <1>4 DEF none

\* A list of one plain header.
LEMMA OneHeader ==
  ASSUME NEW h \in HeaderSet, ~IsBearer(h)
  PROVE  <<h>> \in Seq(HeaderSet) /\ Bearers(<<h>>) = <<>> /\ Distinct(<<h>>)
<1> DEFINE one == <<h>>
<1>1. one \in Seq(HeaderSet) /\ Len(one) = 1 /\ one[1] = h /\ \A i \in 1 .. 1 : i = 1
  OBVIOUS
<1> HIDE DEF one
<1>2. \A i \in 1 .. Len(one) : ~IsBearer(one[i])
  BY <1>1
<1>3. Bearers(one) = <<>>
  BY <1>1, <1>2, BearersInOrder
<1>4. Distinct(one)
  BY <1>1 DEF Distinct
<1>. QED BY <1>1, <1>3, <1>4 DEF one

\* The files that are opened, and the drafts.
LEMMA FilesAreGood ==
  /\ \A m \in Files : GoodModel(m)
  /\ \A m \in Drafts : GoodModel(m)
<1>1. /\ Header("X", FALSE, "1") \in HeaderSet /\ ~IsBearer(Header("X", FALSE, "1"))
      /\ Header("Y", FALSE, "2") \in HeaderSet /\ ~IsBearer(Header("Y", FALSE, "2"))
  BY DEF Header, HeaderSet, IsBearer, Authorization, Values
<1>2. /\ <<Var("x")>> \in Seq(VarSet) /\ <<Var(Required)>> \in Seq(VarSet)
      /\ {"V"} \subseteq {<<Var(Required)>>[i].name : i \in DOMAIN <<Var(Required)>>}
  <2>1. Var("x") \in VarSet /\ Var(Required) \in VarSet /\ Var(Required).name = "V"
    BY DEF Var, VarSet
  <2> DEFINE one == <<Var(Required)>>
  <2>2. <<Var("x")>> \in Seq(VarSet) /\ one \in Seq(VarSet) /\ 1 \in DOMAIN one /\ one[1].name = "V"
    BY <2>1
  <2> HIDE DEF one
  <2>3. {"V"} \subseteq {one[i].name : i \in DOMAIN one}
    BY <2>2
  <2>. QED BY <2>2, <2>3 DEF one
<1>3. ASSUME NEW s \in SignIns, NEW b \in Bodies
      PROVE  /\ GoodModel(Model(s, b, <<Header("X", FALSE, "1")>>, <<Header("Y", FALSE, "2")>>, <<Var("x")>>, {}))
             /\ GoodModel(Model(s, b, <<>>, <<>>, <<Var(Required)>>, {"V"}))
             /\ GoodModel(Model(s, b, <<>>, <<>>, <<>>, {}))
  <2> DEFINE x == Header("X", FALSE, "1")
             y == Header("Y", FALSE, "2")
             hx == <<x>>
             hy == <<y>>
             v == <<Var("x")>>
             w == <<Var(Required)>>
             none == <<>>
             vs == {"V"}
             no == {}
  <2>1. /\ hx \in Seq(HeaderSet) /\ Bearers(hx) = none /\ hy \in Seq(HeaderSet) /\ Distinct(hy)
    BY <1>1, OneHeader
  <2>2. none \in Seq(HeaderSet) /\ Bearers(none) = none /\ Distinct(none) /\ none \in Seq(VarSet)
    BY NoHeaders
  <2>3. /\ v \in Seq(VarSet) /\ w \in Seq(VarSet) /\ vs \subseteq {w[i].name : i \in DOMAIN w}
        /\ vs \in SUBSET {"V"} /\ no \in SUBSET {"V"}
        /\ no \subseteq {v[i].name : i \in DOMAIN v} /\ no \subseteq {none[i].name : i \in DOMAIN none}
    BY <1>2
  <2>4. none = <<>>
    OBVIOUS
  <2> HIDE DEF hx, hy, v, w, none, vs, no, x, y
  <2>5. GoodModel(Model(s, b, hx, hy, v, no))
    BY <2>1, <2>3, <2>4, ModelIsGood
  <2>6. GoodModel(Model(s, b, none, none, w, vs)) /\ GoodModel(Model(s, b, none, none, none, no))
    BY <2>2, <2>3, <2>4, ModelIsGood
  <2>. QED BY <2>5, <2>6 DEF hx, hy, v, w, none, vs, no, x, y
<1> DEFINE one(s, b) == Model(s, b, <<Header("X", FALSE, "1")>>, <<Header("Y", FALSE, "2")>>, <<Var("x")>>, {})
           other(s, b) == Model(s, b, <<>>, <<>>, <<Var(Required)>>, {"V"})
           empty(s, b) == Model(s, b, <<>>, <<>>, <<>>, {})
<1>4. \A s \in SignIns, b \in Bodies : GoodModel(one(s, b)) /\ GoodModel(other(s, b)) /\ GoodModel(empty(s, b))
  BY <1>3
<1>5. Files = {one(s, b) : s \in SignIns, b \in Bodies}
                \cup {other(s, b) : s \in SignIns, b \in {c \in Bodies : c.body = Unset}}
  BY DEF Files
<1>6. Drafts = {empty(s, b) : s \in SignIns, b \in {c \in Bodies : c.body = "text"}}
                 \cup {empty(s, b) : s \in {t \in SignIns : t.auth # Unset}, b \in Bodies}
  BY DEF Drafts
<1> HIDE DEF one, other, empty
<1>. QED BY <1>4, <1>5, <1>6

\* The form before a file is opened.
LEMMA EmptyFormIsForm == EmptyForm \in Forms
<1>1. <<>> \in Seq(RowSet) /\ <<>> \in Seq(VarRowSet)
  OBVIOUS
<1>. QED BY <1>1 DEF EmptyForm, Forms, Values, Users, Grants, BodyTexts, Queries, FormData

\* Forms with the same rows have the same headers and variables.
VarsIn(rows) == [i \in DOMAIN rows |-> rows[i].v]
SecretsIn(rows) == {rows[i].v.name : i \in {k \in DOMAIN rows : rows[k].secret}}

\* What forms with the same rows have in common.
LEMMA SameRows ==
  ASSUME NEW f, NEW g
  PROVE  /\ f.rows = g.rows => \A on : Headers(f, on) = Headers(g, on)
         /\ f.varRows = g.varRows => VarsOf(f) = VarsOf(g) /\ SecretsOf(f) = SecretsOf(g)
<1>1. \A on : Headers(f, on) = FlattenSeq(RowParts(f.rows, on)) /\ Headers(g, on) = FlattenSeq(RowParts(g.rows, on))
  BY DEF Headers, RowParts
<1>2. /\ VarsOf(f) = VarsIn(f.varRows) /\ VarsOf(g) = VarsIn(g.varRows)
      /\ SecretsOf(f) = SecretsIn(f.varRows) /\ SecretsOf(g) = SecretsIn(g.varRows)
  BY DEF VarsOf, VarsIn, SecretsOf, SecretsIn
<1>. QED BY <1>1, <1>2

\* An edit of some sections leaves the others.
LEMMA Edited ==
  ASSUME FormInv, NEW f \in Forms, NEW sections, Edit(f, sections),
         "headers" \in sections \/ f.rows = form.rows,
         "bodyMode" \in sections \/ f.bodyMode = form.bodyMode,
         "body" \in sections \/ (f.bodyText = form.bodyText /\ f.gqlQuery = form.gqlQuery /\ f.formRows = form.formRows),
         "authMode" \in sections \/ f.authMode = form.authMode,
         "auth" \in sections \/ (f.user = form.user /\ f.token = form.token /\ f.oauth = form.oauth),
         "vars" \in sections \/ f.varRows = form.varRows
  PROVE  FormInv'
<1> DEFINE t == touched \cup sections
<1>1. Untouched(form, base, touched)
  BY DEF FormInv
<1>2. "headers" \notin t => Headers(f, TRUE) = base.headers /\ Headers(f, FALSE) = base.disabled
  BY <1>1, SameRows DEF Untouched
<1>3. "vars" \notin t => VarsOf(f) = base.variables /\ SecretsOf(f) = base.secrets
  BY <1>1, SameRows DEF Untouched
<1>4. "body" \notin t => /\ f.bodyText = base.body
                         /\ base.graphql # Unset => f.gqlQuery = base.graphql
                         /\ base.formFields # Unset => f.formRows = base.formFields
  BY <1>1 DEF Untouched
<1>5. "auth" \notin t => /\ AuthModeOf(base) = "basic" => f.user = base.user
                         /\ AuthModeOf(base) = "bearer" => f.token = Bearers(base.headers)[1].value
                         /\ AuthModeOf(base) = "oauth2" => f.oauth = base.auth
  BY <1>1 DEF Untouched
<1>6. /\ "bodyMode" \notin t => f.bodyMode = BodyModeOf(base)
      /\ "authMode" \notin t => f.authMode = AuthModeOf(base)
  BY <1>1 DEF Untouched
<1> HIDE DEF t
<1>7. Untouched(f, base, t)
  BY <1>2, <1>3, <1>4, <1>5, <1>6 DEF Untouched
<1>8. /\ form' = f /\ touched' = t /\ fileRef' = fileRef /\ rawDraft' = rawDraft
      /\ saveOf' = saveOf /\ base' = base
  BY DEF Edit, t
<1>9. /\ GoodModel(base') /\ GoodModel(fileRef') /\ form' \in Forms
      /\ rawDraft' = Invalid \/ GoodModel(rawDraft')
      /\ saveOf' = NoFormSave \/ GoodModel(saveOf'.file)
  BY <1>8 DEF FormInv
<1>10. Untouched(form', base', touched')
  BY <1>7, <1>8
<1>. QED BY <1>9, <1>10 DEF FormInv

\* A form that is filled is of its new model.
LEMMA FillKeeps ==
  ASSUME FormInv, NEW m, GoodModel(m), Fill(m)
  PROVE  form' \in Forms /\ GoodModel(base') /\ GoodModel(fileRef') /\ Untouched(form', base', touched')
<1>1. form' = Populate(form, m) /\ fileRef' = m /\ base' = m /\ touched' = {}
  BY DEF Fill
<1>2. Populate(form, m) \in Forms /\ Untouched(Populate(form, m), m, {})
  BY Filled DEF FormInv
<1>. QED BY <1>1, <1>2

\* Rows that are edited are rows.
LEMMA RowsTyped ==
  ASSUME NEW rows \in Seq(RowSet), NEW i \in DOMAIN rows
  PROVE  /\ [rows EXCEPT ![i].enabled = ~rows[i].enabled] \in Seq(RowSet)
         /\ RemoveAt(rows, i) \in Seq(RowSet)
<1>1. Len(rows) \in Nat /\ DOMAIN rows = 1 .. Len(rows) /\ \A j \in 1 .. Len(rows) : rows[j] \in RowSet
  BY LenProperties, ElementOfSeq
<1> DEFINE row == [rows[i] EXCEPT !.enabled = ~rows[i].enabled]
<1>2. row \in RowSet
  BY <1>1 DEF RowSet
<1>3. [rows EXCEPT ![i].enabled = ~rows[i].enabled] = [rows EXCEPT ![i] = row]
  OBVIOUS
<1> HIDE DEF row
<1>4. [rows EXCEPT ![i] = row] \in Seq(RowSet)
  BY <1>1, <1>2, ExceptSeq
<1>5. SubSeq(rows, 1, i - 1) \in Seq(RowSet) /\ SubSeq(rows, i + 1, Len(rows)) \in Seq(RowSet)
  BY <1>1, SubSeqProperties
<1>6. RemoveAt(rows, i) = SubSeq(rows, 1, i - 1) \o SubSeq(rows, i + 1, Len(rows))
  BY DEF RemoveAt
<1>7. RemoveAt(rows, i) \in Seq(RowSet)
  BY <1>5, <1>6, ConcatProperties
<1>. QED BY <1>3, <1>4, <1>7

\* Rows of variables that are edited are rows.
LEMMA VarRowsTyped ==
  ASSUME NEW rows \in Seq(VarRowSet), NEW i \in DOMAIN rows
  PROVE  /\ [rows EXCEPT ![i].v.def = "y"] \in Seq(VarRowSet)
         /\ [rows EXCEPT ![i].secret = ~rows[i].secret] \in Seq(VarRowSet)
<1>1. Len(rows) \in Nat /\ DOMAIN rows = 1 .. Len(rows) /\ \A j \in 1 .. Len(rows) : rows[j] \in VarRowSet
  BY LenProperties, ElementOfSeq
<1> DEFINE one == [rows[i] EXCEPT !.v = [rows[i].v EXCEPT !.def = "y"]]
           other == [rows[i] EXCEPT !.secret = ~rows[i].secret]
<1>2. one \in VarRowSet /\ other \in VarRowSet
  BY <1>1 DEF VarRowSet, VarSet
<1>3. /\ [rows EXCEPT ![i].v.def = "y"] = [rows EXCEPT ![i] = one]
      /\ [rows EXCEPT ![i].secret = ~rows[i].secret] = [rows EXCEPT ![i] = other]
  OBVIOUS
<1> HIDE DEF one, other
<1>4. [rows EXCEPT ![i] = one] \in Seq(VarRowSet) /\ [rows EXCEPT ![i] = other] \in Seq(VarRowSet)
  BY <1>1, <1>2, ExceptSeq
<1>. QED BY <1>3, <1>4

\* A form begins as what its file says.
LEMMA FormStarts == FormInit => FormInv
<1> SUFFICES ASSUME FormInit PROVE FormInv
  OBVIOUS
<1>1. PICK m \in Files : /\ disk = m /\ fileRef = m /\ base = m /\ form = Populate(EmptyForm, m)
                         /\ rawDraft = Invalid /\ saveOf = NoFormSave /\ touched = {}
  BY DEF FormInit
<1>2. GoodModel(m)
  BY FilesAreGood
<1>3. Populate(EmptyForm, m) \in Forms /\ Untouched(Populate(EmptyForm, m), m, {})
  BY <1>2, Filled, EmptyFormIsForm
<1>. QED BY <1>1, <1>2, <1>3 DEF FormInv

\* The fields of a form.
LEMMA FormTyped ==
  ASSUME NEW f \in Forms
  PROVE  /\ f.rows \in Seq(RowSet) /\ f.bodyMode \in {"raw", "graphql", "multipart"} /\ f.bodyText \in BodyTexts
         /\ f.gqlQuery \in Queries /\ f.formRows \in FormData /\ f.authMode \in {Unset, "basic", "bearer", "oauth2"}
         /\ f.user \in Users /\ f.token \in Values /\ f.oauth \in Grants /\ f.varRows \in Seq(VarRowSet)
         /\ f = [rows |-> f.rows, bodyMode |-> f.bodyMode, bodyText |-> f.bodyText, gqlQuery |-> f.gqlQuery,
                 formRows |-> f.formRows, authMode |-> f.authMode, user |-> f.user, token |-> f.token,
                 oauth |-> f.oauth, varRows |-> f.varRows]
BY DEF Forms

\* A row of the headers is edited.
LEMMA HeaderEdits == ASSUME FormInv, UpdateHeader PROVE FormInv'
<1>1. form \in Forms /\ form.rows \in Seq(RowSet)
  BY FormTyped DEF FormInv
<1>2. ASSUME NEW rows \in Seq(RowSet), Edit([form EXCEPT !.rows = rows], {"headers"}) PROVE FormInv'
  <2> DEFINE f == [form EXCEPT !.rows = rows]
  <2>1. /\ f \in Forms /\ f.bodyMode = form.bodyMode /\ f.bodyText = form.bodyText
        /\ f.gqlQuery = form.gqlQuery /\ f.formRows = form.formRows /\ f.authMode = form.authMode
        /\ f.user = form.user /\ f.token = form.token /\ f.oauth = form.oauth /\ f.varRows = form.varRows
    BY <1>1 DEF Forms
  <2>2. Edit(f, {"headers"})
    BY <1>2
  <2> DEFINE sections == {"headers"}
  <2>3. "headers" \in sections
    OBVIOUS
  <2> HIDE DEF f, sections
  <2>. QED BY <2>1, <2>2, <2>3, Edited DEF sections
<1>3. ASSUME NEW i \in DOMAIN form.rows, Edit([form EXCEPT !.rows[i].enabled = ~form.rows[i].enabled], {"headers"})
      PROVE  FormInv'
  <2> DEFINE rows == [form.rows EXCEPT ![i].enabled = ~form.rows[i].enabled]
  <2>1. rows \in Seq(RowSet)
    BY <1>1, RowsTyped
  <2>2. [form EXCEPT !.rows[i].enabled = ~form.rows[i].enabled] = [form EXCEPT !.rows = rows]
    OBVIOUS
  <2> HIDE DEF rows
  <2>. QED BY <1>2, <1>3, <2>1, <2>2
<1>4. ASSUME NEW i \in DOMAIN form.rows, Edit([form EXCEPT !.rows = RemoveAt(form.rows, i)], {"headers"})
      PROVE  FormInv'
  BY <1>1, <1>2, <1>4, RowsTyped
<1>5. ASSUME Edit([form EXCEPT !.rows = Append(form.rows, Row(Header("Y", FALSE, "3"), TRUE))], {"headers"})
      PROVE  FormInv'
  <2>1. Row(Header("Y", FALSE, "3"), TRUE) \in RowSet
    BY DEF Row, Header, RowSet, HeaderSet, Authorization, Values
  <2> DEFINE row == Row(Header("Y", FALSE, "3"), TRUE)
  <2> HIDE DEF row
  <2>2. Append(form.rows, row) \in Seq(RowSet)
    BY <1>1, <2>1, AppendProperties DEF row
  <2>. QED BY <1>2, <1>5, <2>2 DEF row
<1>. QED BY <1>3, <1>4, <1>5 DEF UpdateHeader

\* Another kind of body is chosen.
LEMMA BodyModeEdits == ASSUME FormInv, SetBodyMode PROVE FormInv'
<1>1. form \in Forms
  BY DEF FormInv
<1>2. PICK mode \in {"raw", "graphql", "multipart"} : Edit([form EXCEPT !.bodyMode = mode], {"bodyMode"})
  BY DEF SetBodyMode
<1> DEFINE f == [form EXCEPT !.bodyMode = mode]
           sections == {"bodyMode"}
<1>3. /\ f \in Forms /\ f.rows = form.rows /\ f.bodyText = form.bodyText
      /\ f.gqlQuery = form.gqlQuery /\ f.formRows = form.formRows /\ f.authMode = form.authMode
      /\ f.user = form.user /\ f.token = form.token /\ f.oauth = form.oauth /\ f.varRows = form.varRows
  BY <1>1 DEF Forms
<1>4. "bodyMode" \in sections /\ Edit(f, sections)
  BY <1>2
<1> HIDE DEF f, sections
<1>. QED BY <1>3, <1>4, Edited

\* Another sign-in is chosen.
LEMMA AuthModeEdits == ASSUME FormInv, SetAuthMode PROVE FormInv'
<1>1. form \in Forms
  BY DEF FormInv
<1>2. PICK mode \in {Unset, "basic", "bearer", "oauth2"} : Edit([form EXCEPT !.authMode = mode], {"authMode"})
  BY DEF SetAuthMode
<1> DEFINE f == [form EXCEPT !.authMode = mode]
           sections == {"authMode"}
<1>3. /\ f \in Forms /\ f.rows = form.rows /\ f.bodyMode = form.bodyMode /\ f.bodyText = form.bodyText
      /\ f.gqlQuery = form.gqlQuery /\ f.formRows = form.formRows
      /\ f.user = form.user /\ f.token = form.token /\ f.oauth = form.oauth /\ f.varRows = form.varRows
  BY <1>1 DEF Forms
<1>4. "authMode" \in sections /\ Edit(f, sections)
  BY <1>2
<1> HIDE DEF f, sections
<1>. QED BY <1>3, <1>4, Edited

\* The body of the mode is edited.
LEMMA BodyEdits == ASSUME FormInv, EditBody PROVE FormInv'
<1>1. form \in Forms
  BY DEF FormInv
<1>2. \/ Edit([form EXCEPT !.gqlQuery = "r"], {"body"})
      \/ Edit([form EXCEPT !.formRows = "g"], {"body"})
      \/ Edit([form EXCEPT !.bodyText = "other"], {"body"})
  BY DEF EditBody
<1>3. PICK f : f \in {[form EXCEPT !.gqlQuery = "r"], [form EXCEPT !.formRows = "g"], [form EXCEPT !.bodyText = "other"]}
                 /\ Edit(f, {"body"})
  BY <1>2
<1> DEFINE sections == {"body"}
<1>4. /\ f \in Forms /\ f.rows = form.rows /\ f.bodyMode = form.bodyMode /\ f.authMode = form.authMode
      /\ f.user = form.user /\ f.token = form.token /\ f.oauth = form.oauth /\ f.varRows = form.varRows
  BY <1>1, <1>3 DEF Forms, Queries, FormData, BodyTexts
<1>5. "body" \in sections /\ Edit(f, sections)
  BY <1>3
<1> HIDE DEF sections
<1>. QED BY <1>4, <1>5, Edited

\* The sign-in of the mode is edited.
LEMMA AuthEdits == ASSUME FormInv, EditAuth PROVE FormInv'
<1>1. form \in Forms
  BY DEF FormInv
<1>2. \/ Edit([form EXCEPT !.user = "v:p"], {"auth"})
      \/ Edit([form EXCEPT !.token = "t2"], {"auth"})
      \/ Edit([form EXCEPT !.oauth = "grant2"], {"auth"})
  BY DEF EditAuth
<1>3. PICK f : f \in {[form EXCEPT !.user = "v:p"], [form EXCEPT !.token = "t2"], [form EXCEPT !.oauth = "grant2"]}
                 /\ Edit(f, {"auth"})
  BY <1>2
<1> DEFINE sections == {"auth"}
<1>4. /\ f \in Forms /\ f.rows = form.rows /\ f.bodyMode = form.bodyMode /\ f.authMode = form.authMode
      /\ f.bodyText = form.bodyText /\ f.gqlQuery = form.gqlQuery /\ f.formRows = form.formRows
      /\ f.varRows = form.varRows
  BY <1>1, <1>3 DEF Forms, Users, Values, Grants
<1>5. "auth" \in sections /\ Edit(f, sections)
  BY <1>3
<1> HIDE DEF sections
<1>. QED BY <1>4, <1>5, Edited

\* A variable is edited.
LEMMA VarEdits == ASSUME FormInv, UpdateVar PROVE FormInv'
<1>1. form \in Forms /\ form.varRows \in Seq(VarRowSet)
  BY FormTyped DEF FormInv
<1>2. ASSUME NEW rows \in Seq(VarRowSet), Edit([form EXCEPT !.varRows = rows], {"vars"}) PROVE FormInv'
  <2> DEFINE f == [form EXCEPT !.varRows = rows]
             sections == {"vars"}
  <2>1. /\ f \in Forms /\ f.rows = form.rows /\ f.bodyMode = form.bodyMode /\ f.bodyText = form.bodyText
        /\ f.gqlQuery = form.gqlQuery /\ f.formRows = form.formRows /\ f.authMode = form.authMode
        /\ f.user = form.user /\ f.token = form.token /\ f.oauth = form.oauth
    BY <1>1 DEF Forms
  <2>2. Edit(f, sections) /\ "vars" \in sections
    BY <1>2
  <2> HIDE DEF f, sections
  <2>. QED BY <2>1, <2>2, Edited
<1>3. ASSUME NEW i \in DOMAIN form.varRows, Edit([form EXCEPT !.varRows[i].v.def = "y"], {"vars"}) PROVE FormInv'
  <2> DEFINE rows == [form.varRows EXCEPT ![i].v.def = "y"]
  <2>1. rows \in Seq(VarRowSet)
    BY <1>1, VarRowsTyped
  <2>2. [form EXCEPT !.varRows[i].v.def = "y"] = [form EXCEPT !.varRows = rows]
    OBVIOUS
  <2> HIDE DEF rows
  <2>. QED BY <1>2, <1>3, <2>1, <2>2
<1>4. ASSUME NEW i \in DOMAIN form.varRows, Edit([form EXCEPT !.varRows[i].secret = ~form.varRows[i].secret], {"vars"})
      PROVE  FormInv'
  <2> DEFINE rows == [form.varRows EXCEPT ![i].secret = ~form.varRows[i].secret]
  <2>1. rows \in Seq(VarRowSet)
    BY <1>1, VarRowsTyped
  <2>2. [form EXCEPT !.varRows[i].secret = ~form.varRows[i].secret] = [form EXCEPT !.varRows = rows]
    OBVIOUS
  <2> HIDE DEF rows
  <2>. QED BY <1>2, <1>4, <2>1, <2>2
<1>5. ASSUME Edit([form EXCEPT !.varRows = <<[v |-> Var("z"), secret |-> FALSE]>>], {"vars"}) PROVE FormInv'
  <2> DEFINE row == [v |-> Var("z"), secret |-> FALSE]
             rows == <<row>>
  <2>1. row \in VarRowSet
    BY DEF Var, VarSet, VarRowSet
  <2> HIDE DEF row
  <2>2. rows \in Seq(VarRowSet)
    BY <2>1
  <2> HIDE DEF rows
  <2>. QED BY <1>2, <1>5, <2>2 DEF rows, row
<1>. QED BY <1>3, <1>4, <1>5 DEF UpdateVar

\* The panes are toggled, the draft is typed, a command is pasted, a save begins and ends.
LEMMA FormPanes == ASSUME FormInv, ToggleRawMode \/ EditRaw \/ Paste \/ StartSave \/ EndSave PROVE FormInv'
<1>1. /\ form \in Forms /\ GoodModel(base) /\ GoodModel(fileRef)
      /\ rawDraft = Invalid \/ GoodModel(rawDraft)
      /\ saveOf = NoFormSave \/ GoodModel(saveOf.file)
      /\ Untouched(form, base, touched)
  BY DEF FormInv
<1>2. GoodModel(Assemble(form)) /\ GoodModel(Reread(Assemble(form)))
  BY <1>1, AssembledIsGood, RereadIsGood
<1>3. ASSUME form' \in Forms /\ GoodModel(base') /\ GoodModel(fileRef') /\ Untouched(form', base', touched'),
             rawDraft' = Invalid \/ GoodModel(rawDraft'), saveOf' = NoFormSave \/ GoodModel(saveOf'.file)
      PROVE  FormInv'
  BY <1>3 DEF FormInv
<1>4. ASSUME UNCHANGED <<form, fileRef, base, touched>>
      PROVE  form' \in Forms /\ GoodModel(base') /\ GoodModel(fileRef') /\ Untouched(form', base', touched')
  BY <1>1, <1>4
<1>5. CASE ToggleRawMode
  <2>1. UNCHANGED saveOf
    BY <1>5 DEF ToggleRawMode
  <2>2. CASE rawDraft' = Reread(Assemble(form)) /\ UNCHANGED <<form, fileRef, base, touched>>
    BY <1>1, <1>2, <1>3, <1>4, <2>1, <2>2
  <2>3. CASE rawDraft # Invalid /\ Fill(rawDraft) /\ UNCHANGED rawDraft
    BY <1>1, <1>3, <2>1, <2>3, FillKeeps
  <2>. QED BY <1>5, <2>2, <2>3 DEF ToggleRawMode
<1>6. CASE EditRaw
  <2>1. rawDraft' = Invalid \/ GoodModel(rawDraft')
    BY <1>6, FilesAreGood DEF EditRaw
  <2>2. UNCHANGED <<form, fileRef, base, touched>> /\ UNCHANGED saveOf
    BY <1>6 DEF EditRaw
  <2>. QED BY <1>1, <1>3, <1>4, <2>1, <2>2
<1>7. CASE Paste
  <2>1. PICK m \in Drafts : Fill(m)
    BY <1>7 DEF Paste
  <2>2. UNCHANGED rawDraft /\ UNCHANGED saveOf
    BY <1>7 DEF Paste
  <2>3. GoodModel(m)
    BY FilesAreGood
  <2>. QED BY <1>1, <1>3, <2>1, <2>2, <2>3, FillKeeps
<1>8. CASE StartSave
  <2>1. /\ rawMode => rawDraft # Invalid
        /\ saveOf'.file = (IF rawMode THEN rawDraft ELSE Assemble(form))
        /\ UNCHANGED <<form, fileRef, base, touched>> /\ UNCHANGED rawDraft
    BY <1>8 DEF StartSave
  <2>2. GoodModel(saveOf'.file)
    BY <1>1, <1>2, <2>1
  <2>. QED BY <1>1, <1>3, <1>4, <2>1, <2>2
<1>9. CASE EndSave
  <2>1. saveOf.busy /\ saveOf' = NoFormSave
    BY <1>9 DEF EndSave
  <2>2. GoodModel(saveOf.file) /\ GoodModel(Reread(saveOf.file))
    BY <1>1, <2>1, RereadIsGood DEF NoFormSave
  <2>3. CASE UNCHANGED <<form, fileRef, base, touched>> /\ UNCHANGED rawDraft
    BY <1>1, <1>3, <1>4, <2>1, <2>3
  <2>4. CASE Fill(saveOf.file) /\ rawDraft' = Reread(saveOf.file)
    BY <1>3, <2>1, <2>2, <2>4, FillKeeps
  <2>5. CASE fileRef' = saveOf.file /\ UNCHANGED <<form, base, touched>> /\ UNCHANGED rawDraft
    <3>1. form' \in Forms /\ GoodModel(base') /\ GoodModel(fileRef') /\ Untouched(form', base', touched')
      BY <1>1, <2>2, <2>5
    <3>. QED BY <1>1, <1>3, <2>1, <2>5, <3>1
  <2>. QED BY <1>9, <2>3, <2>4, <2>5 DEF EndSave
<1>. QED BY <1>5, <1>6, <1>7, <1>8, <1>9

\* What the invariant says of the form that is shown.
LEMMA FormSays == FormInv => EditsTouchNothingElse
<1> SUFFICES ASSUME FormInv PROVE EditsTouchNothingElse
  OBVIOUS
<1> DEFINE edited == Assemble(form)
           hs == Headers(form, TRUE)
<1>1. /\ form \in Forms /\ GoodModel(base) /\ GoodModel(fileRef) /\ Untouched(form, base, touched)
  BY DEF FormInv
<1>2. /\ edited.user = (IF form.authMode = "basic" THEN form.user ELSE Unset)
      /\ edited.auth = (IF form.authMode = "oauth2" THEN form.oauth ELSE Unset)
      /\ edited.headers = SignedHeaders(form) /\ edited.disabled = ByName(Headers(form, FALSE))
      /\ edited.variables = VarsOf(form) /\ edited.secrets = SecretsOf(form)
  BY DEF Assemble, VarsOf, SecretsOf
<1>3. /\ edited.body = (CASE form.bodyMode = "multipart" -> Unset [] form.bodyMode = "graphql" -> fileRef.body
                       [] OTHER -> form.bodyText)
      /\ edited.graphql = (IF form.bodyMode = "graphql" THEN form.gqlQuery ELSE Unset)
      /\ edited.formFields = (IF form.bodyMode = "multipart" THEN form.formRows ELSE Unset)
  BY DEF AssembledBody, Assemble
<1>4. /\ AuthModeOf(base) = "oauth2" <=> base.auth # Unset
      /\ AuthModeOf(base) = "basic" <=> base.auth = Unset /\ base.user # Unset
      /\ AuthModeOf(base) = "bearer" <=> Bearers(base.headers) # <<>>
      /\ base.auth # Unset => base.user = Unset
      /\ base.auth # Unset \/ base.user # Unset => Bearers(base.headers) = <<>>
      /\ base.formFields # Unset => base.body = Unset
      /\ base.disabled \in Seq(HeaderSet) /\ Distinct(base.disabled)
  BY <1>1, AuthModes DEF GoodModel, Models
<1>5. /\ BodyModeOf(base) \in {"raw", "graphql", "multipart"}
      /\ BodyModeOf(base) = "graphql" <=> base.graphql # Unset
      /\ BodyModeOf(base) = "multipart" <=> base.formFields # Unset
  BY <1>1, BodyModes
<1>6. GoodModel(edited) /\ GoodModel(Reread(edited))
  BY <1>1, AssembledIsGood, RereadIsGood
<1>8. /\ Reread(edited).body = (IF edited.graphql = Unset THEN edited.body ELSE IF edited.graphql = "q" THEN "data of q" ELSE "data of r")
      /\ Reread(base).body = (IF base.graphql = Unset THEN base.body ELSE IF base.graphql = "q" THEN "data of q" ELSE "data of r")
  BY <1>1, <1>6 DEF Reread, GoodModel, Models
<1> HIDE DEF edited
<1>9. "headers" \notin touched => Plain(edited.headers) = Plain(base.headers) /\ edited.disabled = base.disabled
  <2>1. ASSUME "headers" \notin touched PROVE Plain(edited.headers) = Plain(base.headers) /\ edited.disabled = base.disabled
    <3>1. hs = base.headers /\ Headers(form, FALSE) = base.disabled
      BY <1>1, <2>1 DEF Untouched
    <3>2. Plain(edited.headers) = Plain(hs)
      BY <1>1, <1>2, Signed
    <3>. QED BY <1>2, <1>4, <3>1, <3>2, ByNameIs
  <2>. QED BY <2>1
<1>10. "body" \notin touched /\ ("bodyMode" \in touched => form.bodyMode = BodyModeOf(base)) =>
         /\ edited.graphql = base.graphql /\ edited.formFields = base.formFields
         /\ Reread(edited).body = Reread(base).body
  <2>1. ASSUME "body" \notin touched, "bodyMode" \in touched => form.bodyMode = BodyModeOf(base)
        PROVE  /\ edited.graphql = base.graphql /\ edited.formFields = base.formFields
               /\ Reread(edited).body = Reread(base).body
    <3>1. /\ form.bodyMode = BodyModeOf(base) /\ form.bodyText = base.body
          /\ base.graphql # Unset => form.gqlQuery = base.graphql
          /\ base.formFields # Unset => form.formRows = base.formFields
      BY <1>1, <2>1 DEF Untouched
    <3>. QED BY <1>3, <1>4, <1>5, <1>8, <3>1
  <2>. QED BY <2>1
<1>11. /\ touched \cap {"headers", "auth"} = {}
       /\ "authMode" \in touched => form.authMode = AuthModeOf(base)
       => edited.user = base.user /\ edited.auth = base.auth /\ Bearers(edited.headers) = Bearers(base.headers)
  <2>1. ASSUME touched \cap {"headers", "auth"} = {}, "authMode" \in touched => form.authMode = AuthModeOf(base)
        PROVE  edited.user = base.user /\ edited.auth = base.auth /\ Bearers(edited.headers) = Bearers(base.headers)
    <3>1. "headers" \notin touched /\ "auth" \notin touched
      BY <2>1
    <3>2. /\ hs = base.headers /\ form.authMode = AuthModeOf(base)
          /\ AuthModeOf(base) = "basic" => form.user = base.user
          /\ AuthModeOf(base) = "bearer" => form.token = Bearers(base.headers)[1].value
          /\ AuthModeOf(base) = "oauth2" => form.oauth = base.auth
      BY <1>1, <2>1, <3>1 DEF Untouched
    <3>3. edited.headers = base.headers
      BY <1>1, <1>2, <1>4, <3>2, Signed
    <3>4. edited.user = base.user
      BY <1>2, <1>4, <3>2
    <3>5. edited.auth = base.auth
      BY <1>2, <1>4, <3>2
    <3>. QED BY <3>3, <3>4, <3>5
  <2>. QED BY <2>1
<1>12. "vars" \notin touched => edited.variables = base.variables /\ edited.secrets = base.secrets
  BY <1>1, <1>2 DEF Untouched
<1>13. (form.authMode = "bearer") = (Bearers(edited.headers) # <<>>)
  BY <1>1, <1>2, Signed
<1>14. Same(Assemble(Populate(form, Reread(edited))), Reread(edited))
  BY <1>1, <1>6, FilledSaysTheSame
<1>. QED BY <1>9, <1>10, <1>11, <1>12, <1>13, <1>14 DEF EditsTouchNothingElse, edited

\* EditsTouchNothingElse (RequestTab.tsx): whatever is switched to, pasted, saved or toggled, a
\* section of the form that nobody edited is assembled as the file had it, and what is saved
\* opens as the model that was saved.
THEOREM SectionsAreKept == FormSpec => []EditsTouchNothingElse
<1>1. FormInit => FormInv
  BY FormStarts
<1>2. FormInv /\ [FormNext]_formVars => FormInv'
  <2> SUFFICES ASSUME FormInv, [FormNext]_formVars PROVE FormInv'
    OBVIOUS
  <2>1. CASE FormNext
    BY <2>1, HeaderEdits, BodyModeEdits, AuthModeEdits, BodyEdits, AuthEdits, VarEdits, FormPanes DEF FormNext
  <2>2. CASE UNCHANGED formVars
    BY <2>2 DEF FormInv, formVars
  <2>. QED BY <2>1, <2>2
<1>3. FormInv => EditsTouchNothingElse
  BY FormSays
<1>. QED BY <1>1, <1>2, <1>3, PTL DEF FormSpec
=============================================================================
