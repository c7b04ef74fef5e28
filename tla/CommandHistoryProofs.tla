------------------------ MODULE CommandHistoryProofs ------------------------
(***************************************************************************)
(* Theorems about CommandHistory, for every capacity of the deque.         *)
(***************************************************************************)
EXTENDS CommandHistory, SequenceTheorems, TLAPS

-----------------------------------------------------------------------------
(* Starts of sequences. *)

LEMMA StartProperties ==
  ASSUME NEW s \in Seq(Entry), NEW n \in 0 .. Len(s)
  PROVE  /\ SubSeq(s, 1, n) \in Seq(Entry)
         /\ Len(SubSeq(s, 1, n)) = n
         /\ Len(SubSeq(s, 1, n)) <= Len(s)
         /\ \A i \in 1 .. Len(SubSeq(s, 1, n)) : SubSeq(s, 1, n)[i] = s[i]
<1>1. Len(s) \in Nat /\ \A i \in 1 .. Len(s) : s[i] \in Entry
  BY LenProperties, ElementOfSeq
<1>. QED
  BY <1>1, SubSeqProperties

LEMMA FirstProperties ==
  ASSUME NEW s \in Seq(Entry), NEW n \in Nat
  PROVE  /\ First(s, n) \in Seq(Entry)
         /\ Len(First(s, n)) = Least(n, Len(s))
         /\ \A i \in 1 .. Len(First(s, n)) : First(s, n)[i] = s[i]
<1>1. Len(s) \in Nat /\ \A i \in 1 .. Len(s) : s[i] \in Entry
  BY LenProperties, ElementOfSeq
<1>2. Least(n, Len(s)) \in 0 .. Len(s)
  BY <1>1 DEF Least
<1>. QED
  BY <1>1, <1>2, SubSeqProperties DEF First

\* A start that is not longer than the sequence it is taken from is all of it.
LEMMA FirstOfShort ==
  ASSUME NEW s \in Seq(Entry), NEW n \in Nat, Len(s) <= n
  PROVE  First(s, n) = s
<1>1. Len(First(s, n)) = Len(s)
  BY FirstProperties, LenProperties DEF Least
<1>. QED
  BY <1>1, FirstProperties, SeqEqual

\* A new entry in front of the newest entries, the oldest one dropped to make
\* room: the newest entries of the longer sequence.
LEMMA FirstOfPushed ==
  ASSUME NEW s \in Seq(Entry), NEW c \in Entry, NEW n \in Nat \ {0},
         NEW h, h = First(s, n)
  PROVE  First(<<c>> \o s, n) =
           <<c>> \o (IF Len(h) < n THEN h ELSE SubSeq(h, 1, Len(h) - 1))
<1> DEFINE kept == IF Len(h) < n THEN h ELSE SubSeq(h, 1, Len(h) - 1)
           new == <<c>> \o kept
           all == <<c>> \o s
<1>1. /\ h \in Seq(Entry)
      /\ Len(h) = Least(n, Len(s))
      /\ \A i \in 1 .. Len(h) : h[i] = s[i]
  BY FirstProperties
<1>2. Len(s) \in Nat /\ Len(h) \in Nat /\ <<c>> \in Seq(Entry) /\ Len(<<c>>) = 1
  BY <1>1, LenProperties
<1>3. /\ kept \in Seq(Entry)
      /\ Len(kept) = Least(n - 1, Len(s))
      /\ \A i \in 1 .. Len(kept) : kept[i] = s[i]
  <2>1. CASE Len(h) < n
    BY <1>1, <1>2, <2>1 DEF Least
  <2>2. CASE ~ (Len(h) < n)
    <3>1. Len(h) = n /\ n <= Len(s)
      BY <1>1, <1>2, <2>2 DEF Least
    <3>2. \A i \in 1 .. Len(h) : h[i] \in Entry
      BY <1>1, ElementOfSeq
    <3>3. /\ SubSeq(h, 1, n - 1) \in Seq(Entry)
          /\ Len(SubSeq(h, 1, n - 1)) = n - 1
          /\ \A i \in 1 .. n - 1 : SubSeq(h, 1, n - 1)[i] = h[i]
      BY <1>1, <1>2, <3>1, <3>2, SubSeqProperties
    <3>. QED
      BY <1>1, <1>2, <2>2, <3>1, <3>3 DEF Least
  <2>. QED
    BY <2>1, <2>2
<1> HIDE DEF kept
<1>4. /\ new \in Seq(Entry)
      /\ Len(new) = Len(kept) + 1
      /\ \A i \in 1 .. Len(new) : new[i] = IF i = 1 THEN c ELSE kept[i - 1]
  BY <1>2, <1>3, ConcatProperties
<1>5. /\ all \in Seq(Entry)
      /\ Len(all) = Len(s) + 1
      /\ \A i \in 1 .. Len(all) : all[i] = IF i = 1 THEN c ELSE s[i - 1]
  BY <1>2, ConcatProperties
<1> HIDE DEF new, all
<1>6. /\ First(all, n) \in Seq(Entry)
      /\ Len(First(all, n)) = Least(n, Len(all))
      /\ \A i \in 1 .. Len(First(all, n)) : First(all, n)[i] = all[i]
  BY <1>5, FirstProperties
<1>7. Len(First(all, n)) = Len(new)
  BY <1>2, <1>3, <1>4, <1>5, <1>6 DEF Least
<1>8. ASSUME NEW i \in 1 .. Len(new)
      PROVE  First(all, n)[i] = new[i]
  <2>1. First(all, n)[i] = all[i] /\ Len(new) <= Len(all)
    BY <1>2, <1>5, <1>6, <1>7 DEF Least
  <2>2. CASE i = 1
    BY <1>2, <1>3, <1>4, <1>5, <2>1, <2>2
  <2>3. CASE i # 1
    <3>1. i - 1 \in 1 .. Len(kept) /\ i \in 1 .. Len(all)
      BY <1>2, <1>3, <1>4, <1>5, <2>1, <2>3, LenProperties
    <3>. QED
      BY <1>3, <1>4, <1>5, <2>1, <2>3, <3>1
  <2>. QED
    BY <2>2, <2>3
<1>9. First(all, n) = new
  BY <1>4, <1>6, <1>7, <1>8, SeqEqual
<1>. QED
  BY <1>9 DEF new, all, kept

\* Taking a start twice is taking it once.
LEMMA FirstOfFirst ==
  ASSUME NEW s \in Seq(Entry), NEW n \in Nat
  PROVE  First(First(s, n), n) = First(s, n)
<1>1. First(s, n) \in Seq(Entry) /\ Len(First(s, n)) <= n
  BY FirstProperties, LenProperties DEF Least
<1>. QED
  BY <1>1, FirstOfShort

LEMMA NoEntries == << >> \in Seq(Entry) /\ Len(<< >>) = 0 /\ First(<< >>, DEPTH) = << >>
<1>1. << >> \in Seq(Entry) /\ Len(<< >>) = 0
  BY EmptySeq
<1>2. DEPTH \in Nat /\ Len(<< >>) <= DEPTH
  BY DepthAssumption
<1>. QED
  BY <1>1, <1>2, FirstOfShort

-----------------------------------------------------------------------------
(* What the operations do to the deque. *)

\* The constructor loads at most DEPTH lines.
LEMMA Loaded ==
  ASSUME TypeOK, Construct
  PROVE  /\ history' \in Seq(Entry)
         /\ Len(history') <= DEPTH
         /\ history' = First(history', DEPTH)
<1>1. CASE history' = << >>
  BY <1>1, NoEntries, DepthAssumption
<1>2. CASE historyFile # NoFile /\ history' = First(historyFile, DEPTH)
  <2>1. historyFile \in Seq(Entry) /\ DEPTH \in Nat
    BY <1>2, DepthAssumption DEF TypeOK
  <2>2. /\ First(historyFile, DEPTH) \in Seq(Entry)
        /\ Len(First(historyFile, DEPTH)) <= DEPTH
    BY <2>1, FirstProperties, LenProperties DEF Least
  <2>3. First(First(historyFile, DEPTH), DEPTH) = First(historyFile, DEPTH)
    BY <2>1, FirstOfFirst
  <2>. QED
    BY <1>2, <2>2, <2>3
<1>. QED
  BY <1>1, <1>2 DEF Construct

\* add keeps the deque the newest commands of the log.
LEMMA Added ==
  ASSUME TypeOK, HistoryIsRecent, add
  PROVE  /\ count' \in Nat
         /\ log' \in Seq(Entry)
         /\ history' \in Seq(Entry)
         /\ history' = First(log', DEPTH)
<1>1. count' \in Nat /\ count' \in Entry /\ log \in Seq(Entry) /\ DEPTH \in Nat \ {0}
  BY DepthAssumption DEF add, TypeOK, Entry
<1>2. log' = <<count'>> \o log /\ log' \in Seq(Entry)
  BY <1>1, ConcatProperties DEF add
<1>3. history = First(log, DEPTH)
  BY DEF HistoryIsRecent
<1>4. First(<<count'>> \o log, DEPTH) =
        <<count'>> \o (IF Len(history) < DEPTH
                      THEN history ELSE SubSeq(history, 1, Len(history) - 1))
  BY <1>1, <1>3, FirstOfPushed
<1>5. history' = First(log', DEPTH)
  BY <1>2, <1>4 DEF add
<1>. QED
  BY <1>1, <1>2, <1>5, FirstProperties

\* A lookup moves to a position of the deque, and throws only past its end.
LEMMA LookedUp ==
  ASSUME TypeOK, getPrev \/ getNext
  PROVE  /\ currentPosition' \in 0 .. DEPTH - 1
         /\ got' \in Entry \cup {Throws}
         /\ got' = Throws => Len(history) # DEPTH
         /\ UNCHANGED <<pc, history, historyFile, written, count, log, stored>>
<1>1. PICK index \in 0 .. DEPTH - 1 : LookUp(index)
  <2>1. CASE getPrev
    BY <2>1, DepthAssumption DEF getPrev, TypeOK
  <2>2. CASE getNext
    BY <2>2, DepthAssumption DEF getNext, TypeOK
  <2>. QED
    BY <2>1, <2>2
<1>2. Len(history) \in Nat /\ \A i \in 1 .. Len(history) : history[i] \in Entry
  BY LenProperties, ElementOfSeq DEF TypeOK
<1>3. CASE index < Len(history)
  <2>1. history[index + 1] \in Entry
    BY <1>2, <1>3
  <2>. QED
    BY <1>1, <1>3, <2>1, ValuesAssumption DEF LookUp, Entry
<1>4. CASE ~ (index < Len(history))
  BY <1>1, <1>2, <1>4, DepthAssumption DEF LookUp
<1>. QED
  BY <1>3, <1>4

-----------------------------------------------------------------------------
DequeInvariant == TypeOK /\ HistoryIsRecent /\ FullHistoryAnswers /\ FileInvariant

LEMMA DequeInit == Init => DequeInvariant
<1> SUFFICES ASSUME Init PROVE DequeInvariant
  OBVIOUS
<1>1. count \in Nat /\ 0 \in 0 .. DEPTH - 1 /\ 0 \in Nat
  BY DepthAssumption DEF Init
<1>2. historyFile \in Seq(Entry) \cup {NoFile}
  <2>1. ASSUME historyFile # NoFile
        PROVE  historyFile \in Seq(Entry)
    <3>1. historyFile = [i \in 1 .. count |-> count + 1 - i]
      BY <2>1 DEF Init
    <3>2. \A i \in 1 .. count : count + 1 - i \in Entry
      BY <1>1 DEF Entry
    <3>. QED
      BY <1>1, <3>1, <3>2, IsASeq
  <2>. QED
    BY <2>1
<1>3. TypeOK
  BY <1>1, <1>2, NoEntries DEF Init, TypeOK
<1>. QED
  BY <1>3, NoEntries, ValuesAssumption
  DEF Init, DequeInvariant, HistoryIsRecent, FullHistoryAnswers, FileInvariant

\* What store() has written is a start of the deque, and so is what one line
\* more makes of it.
LEMMA WrittenIsStart ==
  ASSUME DequeInvariant, pc = "storing"
  PROVE  /\ historyFile \in Seq(Entry)
         /\ written \in 0 .. Len(history)
         /\ written < Len(history) =>
              Append(historyFile, history[written + 1]) = SubSeq(history, 1, written + 1)
         /\ written = Len(history) => historyFile = history
<1>1. /\ history \in Seq(Entry) /\ Len(history) \in Nat
      /\ \A i \in 1 .. Len(history) : history[i] \in Entry
      /\ written \in 0 .. Len(history)
      /\ historyFile = SubSeq(history, 1, written)
  BY LenProperties, ElementOfSeq DEF DequeInvariant, TypeOK, FileInvariant
<1>2. /\ historyFile \in Seq(Entry)
      /\ Len(historyFile) = written
      /\ \A i \in 1 .. written : historyFile[i] = history[i]
  BY <1>1, SubSeqProperties
<1>3. ASSUME written < Len(history)
      PROVE  Append(historyFile, history[written + 1]) = SubSeq(history, 1, written + 1)
  <2> DEFINE longer == Append(historyFile, history[written + 1])
             start == SubSeq(history, 1, written + 1)
  <2>1. /\ longer \in Seq(Entry)
        /\ Len(longer) = written + 1
        /\ \A i \in 1 .. written + 1 : longer[i] = history[i]
    BY <1>1, <1>2, <1>3, AppendProperties
  <2>2. /\ start \in Seq(Entry)
        /\ Len(start) = written + 1
        /\ \A i \in 1 .. written + 1 : start[i] = history[i]
    BY <1>1, <1>3, SubSeqProperties
  <2> HIDE DEF longer, start
  <2>3. longer = start
    BY <2>1, <2>2, SeqEqual
  <2>. QED
    BY <2>3 DEF longer, start
<1>4. written = Len(history) => historyFile = history
  BY <1>1, <1>2, SeqEqual
<1>. QED
  BY <1>1, <1>2, <1>3, <1>4

\* A torn line leaves the file a sequence of entries.
LEMMA TornLineIsEntry ==
  ASSUME DequeInvariant, pc = "storing", TearLine
  PROVE  historyFile' \in Seq(Entry)
<1>1. historyFile \in Seq(Entry) /\ Torn \in Entry
  BY WrittenIsStart DEF Entry
<1>. QED
  BY <1>1, AppendProperties DEF TearLine

LEMMA DequeStep ==
  ASSUME DequeInvariant, [Next]_vars
  PROVE  DequeInvariant'
<1> USE DEF DequeInvariant
<1>0. /\ Len(history) \in Nat
      /\ \A i \in 1 .. Len(history) : history[i] \in Entry
      /\ NoFile # Throws
      /\ DEPTH \in Nat \ {0}
      /\ 0 \in 0 .. DEPTH - 1
  BY LenProperties, ElementOfSeq, ValuesAssumption, DepthAssumption DEF TypeOK, Entry
<1>1. CASE Construct
  <2>1. /\ history' \in Seq(Entry) /\ Len(history') <= DEPTH
        /\ history' = First(history', DEPTH)
    BY <1>1, Loaded
  <2>. QED
    BY <1>1, <1>0, <2>1
    DEF Construct, TypeOK, HistoryIsRecent, FullHistoryAnswers, FileInvariant
<1>2. CASE add
  <2>1. /\ count' \in Nat
        /\ log' \in Seq(Entry)
        /\ history' \in Seq(Entry)
        /\ history' = First(log', DEPTH)
    BY <1>2, Added
  <2>. QED
    BY <1>2, <1>0, <2>1
    DEF add, TypeOK, HistoryIsRecent, FullHistoryAnswers, FileInvariant
<1>3. CASE getPrev \/ getNext
  <2>1. pc = "up"
    BY <1>3 DEF getPrev, getNext, LookUp
  <2>. QED
    BY <1>3, <2>1, LookedUp
    DEF TypeOK, HistoryIsRecent, FullHistoryAnswers, FileInvariant
<1>4. CASE storeOpens
  <2>1. SubSeq(history, 1, 0) = << >>
    BY DEF TypeOK
  <2>. QED
    BY <1>4, <1>0, <2>1, NoEntries
    DEF storeOpens, TypeOK, HistoryIsRecent, FullHistoryAnswers, FileInvariant
<1>5. CASE storeWrites
  <2>1. /\ written \in 0 .. Len(history) /\ written < Len(history)
        /\ historyFile' = SubSeq(history, 1, written')
        /\ historyFile' \in Seq(Entry)
    <3>1. /\ historyFile \in Seq(Entry) /\ written \in 0 .. Len(history)
          /\ written < Len(history) /\ written' = written + 1
          /\ historyFile' = Append(historyFile, history[written'])
          /\ historyFile' = SubSeq(history, 1, written')
      BY <1>5, WrittenIsStart DEF storeWrites
    <3>2. history[written'] \in Entry
      BY <1>0, <3>1
    <3>. QED
      BY <3>1, <3>2, AppendProperties
  <2>. QED
    BY <1>5, <1>0, <2>1
    DEF storeWrites, TypeOK, HistoryIsRecent, FullHistoryAnswers, FileInvariant
<1>6. CASE storeCloses
  <2>1. historyFile = history
    BY <1>6, WrittenIsStart DEF storeCloses
  <2>2. Len(history) <= DEPTH
    BY <1>0, FirstProperties, LenProperties DEF TypeOK, HistoryIsRecent, Least
  <2>. QED
    BY <1>6, <1>0, <2>1, <2>2
    DEF storeCloses, TypeOK, HistoryIsRecent, FullHistoryAnswers, FileInvariant
<1>7. CASE storeLosesRest
  <2>1. historyFile' \in Seq(Entry) /\ stored = NoFile
    BY <1>7, WrittenIsStart, TornLineIsEntry DEF storeLosesRest, FileInvariant
  <2>. QED
    BY <1>7, <1>0, <2>1
    DEF storeLosesRest, TypeOK, HistoryIsRecent, FullHistoryAnswers, FileInvariant
<1>8. CASE Stop
  <2>1. pc = "storing" => stored = NoFile
    BY DEF FileInvariant
  <2>2. historyFile' \in Seq(Entry) \cup {NoFile}
    BY <1>8, TornLineIsEntry DEF Stop, TypeOK
  <2>3. stored # NoFile => historyFile' = historyFile
    BY <1>8, <2>1 DEF Stop
  <2>. QED
    BY <1>8, <1>0, <2>2, <2>3, NoEntries
    DEF Stop, TypeOK, HistoryIsRecent, FullHistoryAnswers, FileInvariant
<1>9. CASE UNCHANGED vars
  BY <1>9 DEF vars, TypeOK, HistoryIsRecent, FullHistoryAnswers, FileInvariant
<1>. QED
  BY <1>1, <1>2, <1>3, <1>4, <1>5, <1>6, <1>7, <1>8, <1>9 DEF Next

\* The bounded deque: for every DEPTH it holds the newest commands of the log,
\* and its lookups succeed once it is full.
THEOREM DequeCorrect == Spec => [](TypeOK /\ HistoryIsRecent /\ FullHistoryAnswers)
<1>1. DequeInvariant /\ [Next]_vars => DequeInvariant'
  BY DequeStep
<1>2. DequeInvariant => TypeOK /\ HistoryIsRecent /\ FullHistoryAnswers
  BY DEF DequeInvariant
<1>. QED
  BY <1>1, <1>2, DequeInit, PTL DEF Spec

\* For every DEPTH, the lookups of getPrev and getNext throw only while the deque
\* is not full, in whatever order they come and however far they go.
THEOREM LookupsAnswer == Spec => []FullHistoryAnswers
  BY DequeCorrect, PTL

\* The position of the lookups stays in its bounds, and nothing but commands and
\* torn lines comes into the deque and the file.
THEOREM TypeCorrect == Spec => []TypeOK
  BY DequeCorrect, PTL

-----------------------------------------------------------------------------
\* A restart begins with the whole of the history that was stored in full, or,
\* if its file does not open, with none of it.
THEOREM RestartLoadsWhole == Spec => WholeOrNothing
<1>1. ASSUME DequeInvariant, [Next]_vars, pc = "down", pc' = "up", stored # NoFile
      PROVE  history' \in {stored, << >>}
  <2>1. Construct
    BY <1>1 DEF Next, Construct, add, getPrev, getNext, LookUp, storeOpens, storeWrites,
                storeCloses, storeLosesRest, Stop, vars
  <2>2. /\ stored \in Seq(Entry) /\ Len(stored) <= DEPTH /\ historyFile = stored
        /\ DEPTH \in Nat
    BY <1>1, DepthAssumption DEF DequeInvariant, TypeOK, FileInvariant
  <2>3. First(historyFile, DEPTH) = stored
    BY <2>2, FirstOfShort
  <2>. QED
    BY <1>1, <2>1, <2>2, <2>3 DEF Construct
<1>2. DequeInvariant /\ DequeInvariant' /\ [Next]_vars
        => [pc = "down" /\ pc' = "up" /\ stored # NoFile => history' \in {stored, << >>}]_vars
  BY <1>1
<1>3. DequeInvariant /\ [Next]_vars => DequeInvariant'
  BY DequeStep
<1>. QED
  BY <1>2, <1>3, DequeInit, PTL DEF Spec, WholeOrNothing

-----------------------------------------------------------------------------
(* The age of the entries. *)

Aged(s, n) ==
  /\ \A i \in 1 .. Len(s) : s[i] \in Nat => s[i] <= n
  /\ Descending(s)

AgeInvariant ==
  /\ Aged(history, count)
  /\ historyFile # NoFile => Aged(historyFile, count)

\* A start of an aged sequence is aged, now and when more commands are known.
LEMMA AgedStart ==
  ASSUME NEW s \in Seq(Entry), NEW n \in Nat, NEW m \in Nat, n <= m, Aged(s, n),
         NEW t \in Seq(Entry), Len(t) <= Len(s),
         \A i \in 1 .. Len(t) : t[i] = s[i]
  PROVE  Aged(t, m)
<1>1. Len(s) \in Nat /\ Len(t) \in Nat
  BY LenProperties
<1>2. ASSUME NEW i \in 1 .. Len(t), t[i] \in Nat
      PROVE  t[i] <= m
  <2>1. i \in 1 .. Len(s) /\ s[i] \in Nat /\ s[i] <= n
    BY <1>1, <1>2 DEF Aged
  <2>. QED
    BY <1>2, <2>1
<1>3. Descending(t)
  BY <1>1 DEF Aged, Descending
<1>. QED
  BY <1>2, <1>3 DEF Aged

\* A torn line at the end has no age.
LEMMA AgedTorn ==
  ASSUME NEW s \in Seq(Entry), NEW n \in Nat, Aged(s, n)
  PROVE  Aged(Append(s, Torn), n)
<1> DEFINE t == Append(s, Torn)
<1>1. /\ Len(s) \in Nat /\ Len(t) = Len(s) + 1 /\ t[Len(s) + 1] = Torn
      /\ \A i \in 1 .. Len(s) : t[i] = s[i]
  BY AppendProperties, LenProperties DEF Entry
<1> HIDE DEF t
<1>2. \A i \in 1 .. Len(t) : t[i] \in Nat => i \in 1 .. Len(s) /\ t[i] = s[i]
  BY <1>1, ValuesAssumption
<1>3. Aged(t, n)
  BY <1>1, <1>2 DEF Aged, Descending
<1>. QED
  BY <1>3 DEF t

\* The newest command goes in front.
LEMMA AgedPushed ==
  ASSUME NEW s \in Seq(Entry), NEW n \in Nat, Aged(s, n)
  PROVE  Aged(<<n + 1>> \o s, n + 1)
<1> DEFINE t == <<n + 1>> \o s
<1>1. n + 1 \in Entry /\ Len(s) \in Nat
  BY LenProperties DEF Entry
<1>2. /\ Len(t) = Len(s) + 1
      /\ \A i \in 1 .. Len(t) : t[i] = IF i = 1 THEN n + 1 ELSE s[i - 1]
  BY <1>1, ConcatProperties
<1> HIDE DEF t
<1>3. ASSUME NEW i \in 1 .. Len(t), i # 1, t[i] \in Nat
      PROVE  i - 1 \in 1 .. Len(s) /\ t[i] = s[i - 1] /\ t[i] <= n
  BY <1>1, <1>2, <1>3 DEF Aged
<1>4. t[1] = n + 1
  BY <1>1, <1>2
<1>5. \A i \in 1 .. Len(t) : t[i] \in Nat => t[i] <= n + 1
  BY <1>3, <1>4
<1>6. ASSUME NEW i \in 1 .. Len(t), NEW j \in 1 .. Len(t), i < j,
             t[i] \in Nat, t[j] \in Nat
      PROVE  t[i] > t[j]
  <2>1. CASE i = 1
    BY <1>3, <1>4, <1>6, <2>1
  <2>2. CASE i # 1
    <3>1. /\ i - 1 \in 1 .. Len(s) /\ j - 1 \in 1 .. Len(s) /\ i - 1 < j - 1
          /\ t[i] = s[i - 1] /\ t[j] = s[j - 1]
      BY <1>3, <1>6, <2>2
    <3>. QED
      BY <1>6, <3>1 DEF Aged, Descending
  <2>. QED
    BY <2>1, <2>2
<1>7. Aged(t, n + 1)
  BY <1>5, <1>6 DEF Aged, Descending
<1>. QED
  BY <1>7 DEF t

LEMMA AgeStep ==
  ASSUME DequeInvariant, AgeInvariant, [Next]_vars
  PROVE  AgeInvariant'
<1> USE DEF DequeInvariant, AgeInvariant
<1>0. /\ history \in Seq(Entry) /\ count \in Nat /\ count <= count
      /\ DEPTH \in Nat \ {0}
      /\ historyFile # NoFile => historyFile \in Seq(Entry)
  BY DepthAssumption DEF TypeOK
<1>1. Aged(<< >>, count)
  BY DEF Aged, Descending
<1>2. CASE Construct
  <2>1. CASE history' = << >>
    BY <1>1, <1>2, <2>1 DEF Construct
  <2>2. CASE historyFile # NoFile /\ history' = First(historyFile, DEPTH)
    <3>1. /\ First(historyFile, DEPTH) \in Seq(Entry)
          /\ Len(First(historyFile, DEPTH)) <= Len(historyFile)
          /\ \A i \in 1 .. Len(First(historyFile, DEPTH)) :
               First(historyFile, DEPTH)[i] = historyFile[i]
      BY <1>0, <2>2, FirstProperties, LenProperties DEF Least
    <3>2. Aged(First(historyFile, DEPTH), count)
      BY <1>0, <2>2, <3>1, AgedStart
    <3>. QED
      BY <1>2, <2>2, <3>2 DEF Construct
  <2>. QED
    BY <1>2, <2>1, <2>2 DEF Construct
<1>3. CASE add
  <2> DEFINE kept == IF Len(history) < DEPTH THEN history
                                             ELSE SubSeq(history, 1, Len(history) - 1)
  <2>1. count' = count + 1 /\ count' \in Nat /\ count <= count'
    BY <1>0, <1>3 DEF add
  <2>2. /\ kept \in Seq(Entry)
        /\ Len(kept) <= Len(history)
        /\ \A i \in 1 .. Len(kept) : kept[i] = history[i]
    <3>1. Len(history) \in Nat /\ \A i \in 1 .. Len(history) : history[i] \in Entry
      BY <1>0, LenProperties, ElementOfSeq
    <3>2. CASE Len(history) < DEPTH
      BY <1>0, <3>1, <3>2
    <3>3. CASE ~ (Len(history) < DEPTH)
      <4>1. Len(history) - 1 \in 0 .. Len(history)
        BY <1>0, <3>1, <3>3
      <4>. QED
        BY <1>0, <3>3, <4>1, StartProperties
    <3>. QED
      BY <3>2, <3>3
  <2> HIDE DEF kept
  <2>3. Aged(kept, count)
    BY <1>0, <2>2, AgedStart
  <2>4. Aged(<<count + 1>> \o kept, count + 1)
    BY <1>0, <2>2, <2>3, AgedPushed
  <2>5. history' = <<count + 1>> \o kept /\ historyFile' = historyFile
    BY <1>3, <2>1 DEF add, kept
  <2>6. historyFile # NoFile => Aged(historyFile, count')
    BY <1>0, <2>1, AgedStart
  <2>. QED
    BY <2>1, <2>4, <2>5, <2>6
<1>4. CASE getPrev \/ getNext
  BY <1>4 DEF getPrev, getNext, LookUp
<1>5. CASE storeOpens
  BY <1>1, <1>5 DEF storeOpens
<1>6. CASE storeWrites
  <2>1. /\ pc = "storing" /\ written < Len(history) /\ written \in 0 .. Len(history)
        /\ historyFile' = SubSeq(history, 1, written + 1)
    BY <1>6, WrittenIsStart DEF storeWrites
  <2>2. written + 1 \in 0 .. Len(history)
    BY <1>0, <2>1, LenProperties
  <2>3. /\ historyFile' \in Seq(Entry)
        /\ Len(historyFile') <= Len(history)
        /\ \A i \in 1 .. Len(historyFile') : historyFile'[i] = history[i]
    BY <1>0, <2>1, <2>2, StartProperties
  <2>4. Aged(historyFile', count)
    BY <1>0, <2>3, AgedStart
  <2>. QED
    BY <1>6, <2>4 DEF storeWrites
<1>7. CASE storeCloses
  BY <1>7 DEF storeCloses
<1>8. ASSUME pc = "storing", TearLine
      PROVE  Aged(historyFile', count)
  <2>1. historyFile \in Seq(Entry) /\ historyFile # NoFile
    BY <1>8, WrittenIsStart, ValuesAssumption DEF Entry
  <2>2. Aged(Append(historyFile, Torn), count)
    BY <1>0, <2>1, AgedTorn
  <2>. QED
    BY <1>8, <2>2 DEF TearLine
<1>9. CASE storeLosesRest
  BY <1>8, <1>9 DEF storeLosesRest
<1>10. CASE Stop
  BY <1>1, <1>8, <1>10 DEF Stop
<1>11. CASE UNCHANGED vars
  BY <1>11 DEF vars
<1>. QED
  BY <1>2, <1>3, <1>4, <1>5, <1>6, <1>7, <1>9, <1>10, <1>11 DEF Next

\* In the deque and in the file newer commands come first, through any number of
\* stores cut short and restarts.
THEOREM OrderKept == Spec => []NewestFirst
<1>1. Init => AgeInvariant
  <2> SUFFICES ASSUME Init PROVE AgeInvariant
    OBVIOUS
  <2>1. Aged(<< >>, count)
    BY DEF Aged, Descending
  <2>2. count \in Nat
    BY DepthAssumption DEF Init
  <2>3. Len([i \in 1 .. count |-> count + 1 - i]) = count
    <3>1. \A i \in 1 .. count : count + 1 - i \in Entry
      BY <2>2 DEF Entry
    <3>. QED
      BY <2>2, <3>1, IsASeq
  <2>4. Aged([i \in 1 .. count |-> count + 1 - i], count)
    BY <2>2, <2>3 DEF Aged, Descending
  <2>. QED
    BY <2>1, <2>4 DEF Init, AgeInvariant
<1>2. DequeInvariant /\ AgeInvariant /\ [Next]_vars => AgeInvariant'
  BY AgeStep
<1>3. AgeInvariant => NewestFirst
  BY DEF AgeInvariant, Aged, NewestFirst
<1>4. DequeInvariant /\ [Next]_vars => DequeInvariant'
  BY DequeStep
<1>. QED
  BY <1>1, <1>2, <1>3, <1>4, DequeInit, PTL DEF Spec

-----------------------------------------------------------------------------
\* The deque, its file and its crashes are a bounded log: every operation of the
\* class is a step of the log, or none.
THEOREM Refinement == Spec => ImplementsRecentLog
<1>1. Init => Abstract!LogInit
  BY DEF Init, Abstract!LogInit
<1>2. DequeInvariant /\ DequeInvariant' /\ [Next]_vars
        => [Abstract!LogNext]_Abstract!logVars
  <2> SUFFICES ASSUME DequeInvariant, DequeInvariant', [Next]_vars
               PROVE  \/ Abstract!LogNext
                      \/ UNCHANGED <<log, history, historyFile>>
    BY DEF Abstract!logVars
  <2> USE DEF DequeInvariant
  <2>0. /\ \A s : Abstract!Recent(s) = SubSeq(s, 1, IF Len(s) < DEPTH THEN Len(s) ELSE DEPTH)
        /\ history \in Seq(Entry) /\ log \in Seq(Entry) /\ log' \in Seq(Entry)
        /\ Len(history) \in Nat
        /\ DEPTH \in Nat \ {0}
    BY LenProperties, DepthAssumption DEF TypeOK, Abstract!Recent
  <2>1. \A s \in Seq(Entry) : Abstract!Recent(s) = First(s, DEPTH)
    BY <2>0, LenProperties DEF First, Least
  <2>2. CASE Construct
    <3>1. CASE history' = << >>
      BY <2>2, <3>1 DEF Construct, FileInvariant
    <3>2. CASE historyFile # NoFile /\ history' = First(historyFile, DEPTH)
      BY <2>2, <2>1, <3>2 DEF Construct, TypeOK, Abstract!LogNext, Abstract!Restart
    <3>. QED
      BY <2>2, <3>1, <3>2 DEF Construct
  <2>3. CASE add
    <3>1. log' # << >> /\ Tail(log') = log
      <4>1. log' = <<count'>> \o log /\ <<count'>> \in Seq(Entry)
        BY <2>3 DEF add, TypeOK, Entry
      <4>2. Len(log') = Len(log) + 1 /\ Len(log) \in Nat
        BY <2>0, <4>1, ConcatProperties, LenProperties
      <4>3. /\ log' # << >>
            /\ Tail(log') \in Seq(Entry)
            /\ Len(Tail(log')) = Len(log)
            /\ \A i \in 1 .. Len(log) : Tail(log')[i] = log'[i + 1]
        BY <2>0, <4>2, EmptySeq, HeadTailProperties
      <4>4. \A i \in 1 .. Len(log) : log'[i + 1] = log[i]
        BY <2>0, <4>1, <4>2, ConcatProperties
      <4>5. Tail(log') = log
        BY <2>0, <4>3, <4>4, SeqEqual
      <4>. QED
        BY <4>3, <4>5
    <3>2. history' = Abstract!Recent(log')
      BY <2>0, <2>1 DEF HistoryIsRecent
    <3>. QED
      BY <2>3, <3>1, <3>2 DEF add, Abstract!LogNext, Abstract!Add
  <2>4. CASE getPrev \/ getNext
    BY <2>4 DEF getPrev, getNext, LookUp
  <2>5. \A n \in 0 .. Len(history) : SubSeq(history, 1, n) \in Abstract!Prefixes(history)
    BY DEF Abstract!Prefixes
  <2>6. CASE storeOpens
    <3>1. << >> = SubSeq(history, 1, 0) /\ 0 \in 0 .. Len(history)
      BY <2>0
    <3>2. << >> \in Abstract!Prefixes(history)
      BY <2>5, <3>1
    <3>. QED
      BY <2>6, <3>2 DEF storeOpens, Abstract!LogNext, Abstract!Save
  <2>7. CASE storeWrites
    <3>1. pc = "storing" /\ written < Len(history)
      BY <2>7 DEF storeWrites
    <3>2. /\ written \in 0 .. Len(history)
          /\ Append(historyFile, history[written + 1]) = SubSeq(history, 1, written + 1)
      BY <3>1, WrittenIsStart
    <3>3. historyFile' = Append(historyFile, history[written + 1])
      BY <2>7 DEF storeWrites
    <3>4. written + 1 \in 0 .. Len(history)
      BY <2>0, <3>1, <3>2
    <3>5. historyFile' \in Abstract!Prefixes(history)
      BY <2>5, <3>2, <3>3, <3>4
    <3>. QED
      BY <2>7, <3>5 DEF storeWrites, Abstract!LogNext, Abstract!Save
  <2>8. CASE storeCloses
    BY <2>8 DEF storeCloses
  <2>9. ASSUME pc = "storing"
        PROVE  historyFile \in Abstract!Prefixes(history)
    <3>1. historyFile = SubSeq(history, 1, written) /\ written \in 0 .. Len(history)
      BY <2>9, WrittenIsStart DEF FileInvariant
    <3>. QED
      BY <2>5, <3>1
  <2>10. CASE storeLosesRest
    <3>1. CASE TearLine
      BY <2>9, <2>10, <3>1 DEF storeLosesRest, TearLine, Abstract!LogNext, Abstract!Save
    <3>2. CASE UNCHANGED historyFile
      BY <2>10, <3>2 DEF storeLosesRest
    <3>. QED
      BY <2>10, <3>1, <3>2 DEF storeLosesRest
  <2>11. CASE Stop
    <3>1. CASE pc = "storing" /\ TearLine
      BY <2>9, <2>11, <3>1 DEF Stop, TearLine, Abstract!LogNext, Abstract!Forget
    <3>2. CASE UNCHANGED historyFile
      BY <2>11, <3>2 DEF Stop, Abstract!LogNext, Abstract!Forget
    <3>. QED
      BY <2>11, <3>1, <3>2 DEF Stop
  <2>12. CASE UNCHANGED vars
    BY <2>12 DEF vars
  <2>. QED
    BY <2>2, <2>3, <2>4, <2>6, <2>7, <2>8, <2>10, <2>11, <2>12 DEF Next
<1>3. DequeInvariant /\ [Next]_vars => DequeInvariant'
  BY DequeStep
<1>. QED
  BY <1>1, <1>2, <1>3, DequeInit, PTL DEF Spec, ImplementsRecentLog, Abstract!LogSpec

=============================================================================
