--------------------------- MODULE SessionsProofs ---------------------------
(***************************************************************************)
(* Theorems about Sessions, for any set of sessions, files of any length   *)
(* and any number of lines.                                                *)
(***************************************************************************)
EXTENDS Sessions, SequenceTheorems, TLAPS

Text == Seq(Nat \cup {Torn})

-----------------------------------------------------------------------------
(* Prefixes.                                                               *)

LEMMA PrefixByElements ==
  ASSUME NEW S, NEW s \in Seq(S), NEW t \in Seq(S)
  PROVE  IsPrefix(s, t) <=> Len(s) <= Len(t) /\ \A k \in 1 .. Len(s) : s[k] = t[k]
<1>1. Len(s) \in Nat /\ Len(t) \in Nat
  BY LenProperties
<1>2. SUFFICES ASSUME Len(s) <= Len(t)
               PROVE  SubSeq(s, 1, Len(s)) = SubSeq(t, 1, Len(s))
                        <=> \A k \in 1 .. Len(s) : s[k] = t[k]
  BY DEF IsPrefix
<1> DEFINE u == SubSeq(s, 1, Len(s))
           v == SubSeq(t, 1, Len(s))
<1>3. /\ \A k \in 1 .. Len(s) : s[k] \in S
      /\ \A k \in 1 .. Len(s) : t[k] \in S
  BY <1>1, <1>2, ElementOfSeq
<1>4. /\ u \in Seq(S) /\ Len(u) = Len(s) /\ \A k \in 1 .. Len(s) : u[k] = s[k]
      /\ v \in Seq(S) /\ Len(v) = Len(s) /\ \A k \in 1 .. Len(s) : v[k] = t[k]
  BY <1>1, <1>3, SubSeqProperties
<1> HIDE DEF u, v
<1>5. u = v => \A k \in 1 .. Len(s) : s[k] = t[k]
  BY <1>4
<1>6. (\A k \in 1 .. Len(s) : s[k] = t[k]) => u = v
  BY <1>4, SeqEqual
<1>. QED
  BY <1>5, <1>6 DEF u, v

LEMMA TrivialPrefixes ==
  ASSUME NEW S, NEW t \in Seq(S)
  PROVE  << >> \in Seq(S) /\ IsPrefix(<< >>, t) /\ IsPrefix(t, t)
<1>1. << >> \in Seq(S) /\ Len(<< >>) = 0 /\ Len(t) \in Nat
  BY EmptySeq, LenProperties
<1>2. SubSeq(<< >>, 1, 0) = << >> /\ SubSeq(t, 1, 0) = << >>
  BY SubSeqEmpty
<1>. QED
  BY <1>1, <1>2 DEF IsPrefix

LEMMA PrefixOfAppend ==
  ASSUME NEW S, NEW s \in Seq(S), NEW t \in Seq(S), NEW e \in S, IsPrefix(s, t)
  PROVE  IsPrefix(s, Append(t, e))
<1>1. /\ Append(t, e) \in Seq(S)
      /\ Len(Append(t, e)) = Len(t) + 1
      /\ \A k \in 1 .. Len(t) : Append(t, e)[k] = t[k]
      /\ Len(s) \in Nat /\ Len(t) \in Nat
  BY AppendProperties, LenProperties
<1>2. Len(s) <= Len(t) /\ \A k \in 1 .. Len(s) : s[k] = t[k]
  BY PrefixByElements
<1>3. Len(s) <= Len(Append(t, e)) /\ \A k \in 1 .. Len(s) : s[k] = Append(t, e)[k]
  BY <1>1, <1>2
<1>. QED
  BY <1>1, <1>3, PrefixByElements

\* The first elements of a prefix are a prefix.
LEMMA PrefixOfPrefix ==
  ASSUME NEW S, NEW s \in Seq(S), NEW t \in Seq(S), IsPrefix(s, t), NEW n \in 0 .. Len(s)
  PROVE  SubSeq(s, 1, n) \in Seq(S) /\ IsPrefix(SubSeq(s, 1, n), t)
<1> DEFINE u == SubSeq(s, 1, n)
<1>1. Len(s) \in Nat /\ Len(t) \in Nat /\ n \in Nat /\ n <= Len(s)
  BY LenProperties
<1>2. \A k \in 1 .. n : s[k] \in S
  BY <1>1, ElementOfSeq
<1>3. u \in Seq(S) /\ Len(u) = n /\ \A k \in 1 .. n : u[k] = s[k]
  BY <1>1, <1>2, SubSeqProperties
<1>4. Len(s) <= Len(t) /\ \A k \in 1 .. Len(s) : s[k] = t[k]
  BY PrefixByElements
<1> HIDE DEF u
<1>5. Len(u) <= Len(t) /\ \A k \in 1 .. Len(u) : u[k] = t[k]
  BY <1>1, <1>3, <1>4
<1>6. u \in Seq(S) /\ IsPrefix(u, t)
  BY <1>3, <1>5, PrefixByElements
<1>. QED
  BY <1>6 DEF u

\* One prefix written over another is a prefix.
LEMMA PrefixOverPrefix ==
  ASSUME NEW S, NEW new \in Seq(S), NEW old \in Seq(S), NEW t \in Seq(S),
         IsPrefix(new, t), IsPrefix(old, t)
  PROVE  Over(new, old) \in Seq(S) /\ IsPrefix(Over(new, old), t)
<1> DEFINE rest == SubSeq(old, Len(new) + 1, Len(old))
           u    == new \o rest
<1>1. Len(new) \in Nat /\ Len(old) \in Nat /\ Len(t) \in Nat
  BY LenProperties
<1>2. \A k \in Len(new) + 1 .. Len(old) : old[k] \in S
  BY <1>1, ElementOfSeq
<1>3. /\ rest \in Seq(S)
      /\ Len(rest) = IF Len(new) + 1 <= Len(old) THEN Len(old) - Len(new) ELSE 0
      /\ \A k \in 1 .. Len(old) - Len(new) : rest[k] = old[Len(new) + k]
  <2>1. /\ Len(rest) = IF Len(new) + 1 <= Len(old)
                         THEN Len(old) - (Len(new) + 1) + 1 ELSE 0
        /\ \A k \in 1 .. Len(old) - (Len(new) + 1) + 1 : rest[k] = old[Len(new) + 1 + k - 1]
        /\ rest \in Seq(S)
    BY <1>1, <1>2, SubSeqProperties
  <2>2. Len(old) - (Len(new) + 1) + 1 = Len(old) - Len(new)
    BY <1>1
  <2>3. \A k \in 1 .. Len(old) - Len(new) : Len(new) + 1 + k - 1 = Len(new) + k
    BY <1>1
  <2> HIDE DEF rest
  <2>. QED
    BY <2>1, <2>2, <2>3
<1> HIDE DEF rest
<1>4. /\ u \in Seq(S) /\ Len(u) = Len(new) + Len(rest)
      /\ \A k \in 1 .. Len(new) + Len(rest) :
           u[k] = IF k <= Len(new) THEN new[k] ELSE rest[k - Len(new)]
  BY <1>3, ConcatProperties
<1>5. /\ Len(new) <= Len(t) /\ \A k \in 1 .. Len(new) : new[k] = t[k]
      /\ Len(old) <= Len(t) /\ \A k \in 1 .. Len(old) : old[k] = t[k]
  BY PrefixByElements
<1> HIDE DEF u
<1>6. Len(u) <= Len(t)
  BY <1>1, <1>3, <1>4, <1>5
<1>7. ASSUME NEW k \in 1 .. Len(u) PROVE u[k] = t[k]
  <2>1. CASE k <= Len(new)
    BY <1>1, <1>3, <1>4, <1>5, <2>1
  <2>2. CASE ~ k <= Len(new)
    <3>1. /\ Len(new) + 1 <= Len(old) /\ k - Len(new) \in 1 .. Len(old) - Len(new)
          /\ k \in 1 .. Len(old) /\ Len(new) + (k - Len(new)) = k
      BY <1>1, <1>3, <1>4, <2>2
    <3>2. rest[k - Len(new)] = old[k]
      BY <1>3, <3>1
    <3>. QED
      BY <1>4, <1>5, <2>2, <3>1, <3>2
  <2>. QED
    BY <2>1, <2>2
<1>8. u \in Seq(S) /\ IsPrefix(u, t)
  BY <1>4, <1>6, <1>7, PrefixByElements
<1>. QED
  BY <1>8 DEF u, rest, Over

\* What remains of a text is a text, and of nothing remains nothing.
LEMMA RemainsType ==
  ASSUME NEW new \in Text, NEW old \in Text
  PROVE  Remains(new, old) \subseteq Text /\ (old = << >> => Remains(new, old) = {<< >>})
<1> DEFINE tail(k) == SubSeq(old, k, Len(old))
           torn(k) == <<Torn>> \o SubSeq(old, k, Len(old))
<1>1. Len(old) \in Nat
  BY LenProperties DEF Text
<1>2. ASSUME NEW k \in 1 .. Len(old) + 1 PROVE tail(k) \in Text /\ torn(k) \in Text
  <2>1. \A j \in k .. Len(old) : old[j] \in Nat \cup {Torn}
    BY <1>1, <1>2, ElementOfSeq DEF Text
  <2>2. SubSeq(old, k, Len(old)) \in Text
    BY <1>1, <2>1, SubSeqProperties DEF Text
  <2>3. <<Torn>> \in Text
    BY DEF Text
  <2>. QED
    BY <2>2, <2>3, ConcatProperties DEF Text
<1>3. Remains(new, old) = {tail(k) : k \in 1 .. Len(old) + 1}
                            \cup {torn(k) : k \in 2 .. Len(old) + 1}
  BY DEF Remains
<1>4. old = << >> => Len(old) = 0 /\ tail(1) = << >>
  BY EmptySeq, SubSeqEmpty
<1> HIDE DEF tail, torn
<1>5. Remains(new, old) \subseteq Text
  BY <1>1, <1>2, <1>3
<1>6. ASSUME old = << >> PROVE Remains(new, old) = {<< >>}
  <2>1. 1 .. Len(old) + 1 = {1} /\ 2 .. Len(old) + 1 = {}
    BY <1>4, <1>6
  <2>. QED
    BY <1>3, <1>4, <1>6, <2>1
<1>. QED
  BY <1>5, <1>6

-----------------------------------------------------------------------------
(* The invariant: the types, OnlyStarts and FreshInvariant.                *)

Safe == TypeOK /\ OnlyStarts /\ FreshInvariant

LEMMA SafeInit == Init => Safe
<1> SUFFICES ASSUME Init PROVE Safe
  OBVIOUS
<1>1. Len(Lines) \in Nat /\ Lines \in Seq(Nat \cup {Torn}) /\ << >> \in Seq(Nat)
      /\ << >> \in Seq(Nat \cup {Torn})
  BY SessionsAssumption, LenProperties, SeqMonotonic, EmptySeq
<1>2. TypeOK
  BY <1>1, SessionsAssumption DEF Init, TypeOK
<1>3. IsPrefix(Commands, Commands) /\ IsPrefix(<< >>, Commands)
  BY SessionsAssumption, TrivialPrefixes
<1>4. OnlyStarts
  BY <1>3 DEF Init, OnlyStarts
<1>5. FreshInvariant
  BY DEF Init, FreshInvariant
<1>. QED
  BY <1>2, <1>4, <1>5 DEF Safe

\* The three parts of the step, first the deque and its file.
LEMMA StartsStep ==
  ASSUME TypeOK, OnlyStarts, NEW s \in Session,
         Load(s) \/ Construct(s) \/ EnterLine(s) \/ Quit(s) \/ QuitUnsaved(s)
           \/ SaveWrites(s) \/ StoreOpens(s) \/ StoreWrites(s) \/ Leave(s)
  PROVE  /\ OnlyStarts'
         /\ cli_history' \in Seq(Nat)
         /\ history' \in [Session -> Seq(Nat)]
<1>1. /\ cli_history \in Seq(Nat) /\ history \in [Session -> Seq(Nat)]
      /\ IsPrefix(cli_history, Commands) /\ \A t \in Session : IsPrefix(history[t], Commands)
      /\ Commands \in Seq(Nat) /\ DEPTH \in Nat /\ Len(cli_history) \in Nat
  BY SessionsAssumption, LenProperties DEF TypeOK, OnlyStarts
<1>2. CASE Construct(s)
  <2> DEFINE n == Smaller(DEPTH, Len(cli_history))
  <2>1. n \in 0 .. Len(cli_history)
    BY <1>1 DEF Smaller
  <2>2. PICK h \in {<< >>, SubSeq(cli_history, 1, n)} : history' = [history EXCEPT ![s] = h]
    BY <1>2 DEF Construct
  <2>3. cli_history' = cli_history
    BY <1>2 DEF Construct
  <2> HIDE DEF n
  <2>4. h \in Seq(Nat) /\ IsPrefix(h, Commands)
    BY <1>1, <2>1, <2>2, PrefixOfPrefix, TrivialPrefixes
  <2>. QED
    BY <1>1, <2>2, <2>3, <2>4 DEF OnlyStarts
<1>3. CASE StoreOpens(s)
  <2>1. << >> \in Seq(Nat) /\ IsPrefix(<< >>, Commands)
    BY <1>1, TrivialPrefixes
  <2>. QED
    BY <1>1, <1>3, <2>1 DEF StoreOpens, OnlyStarts
<1>4. CASE StoreWrites(s)
  <2>1. /\ Over(history[s], cli_history) \in Seq(Nat)
        /\ IsPrefix(Over(history[s], cli_history), Commands)
    BY <1>1, PrefixOverPrefix
  <2>. QED
    BY <1>1, <1>4, <2>1 DEF StoreWrites, OnlyStarts
<1>5. CASE Load(s) \/ EnterLine(s) \/ Quit(s) \/ QuitUnsaved(s) \/ SaveWrites(s)
           \/ Leave(s)
  <2>1. UNCHANGED <<history, cli_history>>
    BY <1>5 DEF Load, EnterLine, Quit, QuitUnsaved, SaveWrites, Leave
  <2>. QED
    BY <1>1, <2>1 DEF OnlyStarts
<1>. QED
  BY <1>2, <1>3, <1>4, <1>5

\* The rest of the types.
LEMMA TypeStep ==
  ASSUME TypeOK, NEW s \in Session,
         Load(s) \/ Construct(s) \/ EnterLine(s) \/ Quit(s) \/ QuitUnsaved(s)
           \/ SaveWrites(s) \/ StoreOpens(s) \/ StoreWrites(s) \/ Leave(s),
         cli_history' \in Seq(Nat), history' \in [Session -> Seq(Nat)]
  PROVE  TypeOK'
<1>1. /\ ddbclient_history \in Text /\ lines \in [Session -> Text] /\ before \in Text
      /\ pc \in [Session -> {"none", "parse", "loop", "saving", "close", "storing", "exited"}]
      /\ count \in Nat /\ behind \subseteq Session
  BY DEF TypeOK, Text
<1>2. pc' \in [Session -> {"none", "parse", "loop", "saving", "close", "storing", "exited"}]
  BY <1>1 DEF Load, Construct, EnterLine, Quit, QuitUnsaved, SaveWrites, StoreOpens, StoreWrites, Leave, Goto
<1>3. behind' \subseteq Session
  BY <1>1 DEF Load, Construct, EnterLine, Quit, QuitUnsaved, SaveWrites, StoreOpens, StoreWrites, Leave
<1>4. count' \in Nat
  BY <1>1 DEF Load, Construct, EnterLine, Quit, QuitUnsaved, SaveWrites, StoreOpens, StoreWrites, Leave,
              Remember
<1>5. lines' \in [Session -> Text]
  <2>1. Append(lines[s], count + 1) \in Text
    BY <1>1, AppendProperties DEF Text
  <2>2. << >> \in Text
    BY EmptySeq DEF Text
  <2>. QED
    BY <1>1, <2>1, <2>2 DEF Load, Construct, EnterLine, Quit, QuitUnsaved, SaveWrites, StoreOpens, StoreWrites,
                      Leave, Remember
<1>6. ddbclient_history' \in Text
  <2>1. \A rest \in Remains(lines[s], ddbclient_history) : lines[s] \o rest \in Text
    BY <1>1, RemainsType, ConcatProperties DEF Text
  <2>2. << >> \in Text
    BY EmptySeq DEF Text
  <2>. QED
    BY <1>1, <2>1, <2>2 DEF Load, Construct, EnterLine, Quit, QuitUnsaved, SaveWrites, StoreOpens,
                            StoreWrites, Leave
<1>7. before' \in Text
  BY <1>1 DEF Load, Construct, EnterLine, Quit, QuitUnsaved, SaveWrites, StoreOpens, StoreWrites, Leave
<1>. QED
  BY <1>2, <1>3, <1>4, <1>5, <1>6, <1>7 DEF TypeOK, Text

\* What one session does leaves the others behind, or with what they know.
LEMMA FreshStep ==
  ASSUME TypeOK, FreshInvariant, NEW s \in Session,
         Load(s) \/ Construct(s) \/ EnterLine(s) \/ Quit(s) \/ QuitUnsaved(s)
           \/ SaveWrites(s) \/ StoreOpens(s) \/ StoreWrites(s) \/ Leave(s)
  PROVE  FreshInvariant'
<1>1. /\ ddbclient_history \in Text /\ lines \in [Session -> Text] /\ before \in Text
      /\ DOMAIN pc = Session /\ pc = [t \in Session |-> pc[t]] /\ count \in Nat
  BY DEF TypeOK, Text
<1>2. \A t \in Session \ behind :
        /\ pc[t] \in {"parse", "loop", "saving"} => \A u \in Session \ {t} : pc[u] # "saving"
        /\ pc[t] \in {"parse", "loop"} => IsPrefix(ddbclient_history, lines[t])
        /\ pc[t] = "saving" => ddbclient_history = << >> /\ IsPrefix(before, lines[t])
  BY DEF FreshInvariant
<1>3. \A text \in Text : IsPrefix(text, text)
  BY TrivialPrefixes DEF Text
<1>4. ASSUME NEW text \in Text, IsPrefix(text, lines[s])
      PROVE  IsPrefix(text, Append(lines[s], count + 1))
  <2> DEFINE S == Nat \cup {Torn}
             known == lines[s]
             typed == count + 1
  <2>1. text \in Seq(S) /\ known \in Seq(S) /\ typed \in S /\ IsPrefix(text, known)
    BY <1>1, <1>4 DEF Text
  <2> HIDE DEF S, known, typed
  <2>2. IsPrefix(text, Append(known, typed))
    BY <2>1, PrefixOfAppend
  <2>. QED
    BY <2>2 DEF known, typed
<1>5. CASE Load(s)
  <2>1. /\ pc[s] = "none" /\ pc' = [pc EXCEPT ![s] = "parse"]
        /\ \E l : lines' = [lines EXCEPT ![s] = l]
        /\ UNCHANGED <<ddbclient_history, before>>
    BY <1>5 DEF Load, Goto
  <2>2. CASE lines' = [lines EXCEPT ![s] = ddbclient_history]
             /\ behind' = IF \E t \in Session : pc[t] = "saving"
                            THEN behind \cup {s} ELSE behind
    BY <1>1, <1>2, <1>3, <2>1, <2>2 DEF FreshInvariant
  <2>3. CASE lines' = [lines EXCEPT ![s] = << >>] /\ behind' = behind \cup {s}
    BY <1>1, <1>2, <2>1, <2>3 DEF FreshInvariant
  <2>. QED
    BY <1>5, <2>2, <2>3 DEF Load
<1>6. CASE Construct(s)
  BY <1>1, <1>2, <1>6 DEF Construct, Goto, FreshInvariant
<1>7. CASE EnterLine(s)
  BY <1>1, <1>2, <1>4, <1>7 DEF EnterLine, Remember, FreshInvariant
<1>8. CASE Quit(s)
  BY <1>1, <1>2, <1>4, <1>8 DEF Quit, Goto, Remember, FreshInvariant
<1>9. CASE SaveWrites(s)
  BY <1>1, <1>2, <1>9 DEF SaveWrites, Goto, FreshInvariant
<1>10. CASE QuitUnsaved(s)
  BY <1>1, <1>2, <1>10 DEF QuitUnsaved, Goto, Remember, FreshInvariant
<1>11. CASE StoreOpens(s) \/ StoreWrites(s) \/ Leave(s)
  BY <1>1, <1>2, <1>11 DEF StoreOpens, StoreWrites, Leave, Goto, FreshInvariant
<1>. QED
  BY <1>5, <1>6, <1>7, <1>8, <1>9, <1>10, <1>11

LEMMA SafeStep == Safe /\ [Next]_vars => Safe'
<1>1. ASSUME Safe, NEW s \in Session,
             Load(s) \/ Construct(s) \/ EnterLine(s) \/ Quit(s) \/ QuitUnsaved(s)
               \/ SaveWrites(s) \/ StoreOpens(s) \/ StoreWrites(s) \/ Leave(s)
      PROVE  Safe'
  <2>1. /\ OnlyStarts' /\ cli_history' \in Seq(Nat) /\ history' \in [Session -> Seq(Nat)]
    BY <1>1, StartsStep DEF Safe
  <2>2. TypeOK'
    BY <1>1, <2>1, TypeStep DEF Safe
  <2>3. FreshInvariant'
    BY <1>1, FreshStep DEF Safe
  <2>. QED
    BY <2>1, <2>2, <2>3 DEF Safe
<1>2. ASSUME Safe, UNCHANGED vars PROVE Safe'
  BY <1>2 DEF vars, Safe, TypeOK, OnlyStarts, FreshInvariant
<1>. QED
  BY <1>1, <1>2 DEF Next

-----------------------------------------------------------------------------
\* For any number of sessions: only ~/.ddbclient_history ever holds a torn line, and
\* the command history is made of commands alone.
THEOREM TypeCorrect == Spec => []TypeOK
<1>1. Safe => TypeOK
  BY DEF Safe
<1>. QED
  BY <1>1, SafeInit, SafeStep, PTL DEF Spec

\* However many sessions open, write, read and leave ~/.cli_history, in whatever
\* order: it and what they show of it is a start of what was there.
THEOREM NothingForeign == Spec => []OnlyStarts
<1>1. Safe => OnlyStarts
  BY DEF Safe
<1>. QED
  BY <1>1, SafeInit, SafeStep, PTL DEF Spec

\* A session that knows what all others have saved loses no line of theirs, for
\* any number of sessions and any order of what they do.
THEOREM NothingLost == Spec => SaveAddsLines
<1>1. ASSUME Safe, Next, NEW s \in Session \ behind, pc[s] = "saving", pc'[s] = "close"
      PROVE  ddbclient_history' = lines[s] /\ IsPrefix(before, lines[s])
  <2>1. ddbclient_history = << >> /\ IsPrefix(before, lines[s])
    BY <1>1 DEF Safe, FreshInvariant
  <2>2. SaveWrites(s)
    <3>1. PICK t \in Session :
            Load(t) \/ Construct(t) \/ EnterLine(t) \/ Quit(t) \/ QuitUnsaved(t)
              \/ SaveWrites(t) \/ StoreOpens(t) \/ StoreWrites(t) \/ Leave(t)
      BY <1>1 DEF Next
    <3>2. t = s
      BY <1>1, <3>1 DEF Safe, TypeOK, Goto, Load, Construct, EnterLine, Quit, QuitUnsaved, SaveWrites,
                        StoreOpens, StoreWrites, Leave
    <3>. QED
      BY <1>1, <3>1, <3>2 DEF Safe, TypeOK, Goto, Load, Construct, EnterLine, Quit, QuitUnsaved,
                              SaveWrites, StoreOpens, StoreWrites, Leave
  <2>3. lines[s] \in Text /\ ddbclient_history \in Text
    BY <1>1 DEF Safe, TypeOK, Text
  <2>4. Remains(lines[s], ddbclient_history) = {<< >>}
    BY <2>1, <2>3, RemainsType
  <2>5. lines[s] \o << >> = lines[s]
    BY <2>3, ConcatEmptySeq DEF Text
  <2>. QED
    BY <2>1, <2>2, <2>4, <2>5 DEF SaveWrites
<1>2. Safe /\ [Next]_vars =>
        [\A s \in Session :
           pc[s] = "saving" /\ pc'[s] = "close" /\ s \notin behind
             => ddbclient_history' = lines[s] /\ IsPrefix(before, lines[s])]_vars
  BY <1>1
<1>. QED
  BY <1>2, SafeInit, SafeStep, PTL DEF Spec, SaveAddsLines

=============================================================================
