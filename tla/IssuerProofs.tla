---------------------------- MODULE IssuerProofs ----------------------------
(* Theorems about the issuer service over the writes that module AdminWrites*)
(* lets it rely on, for any number of requests, wallets, rows and restarts. *)
EXTENDS Issuer, SequenceTheorems, TLAPS

-----------------------------------------------------------------------------
(* The inductive invariant.                                                *)

Commits == Seq(Commitments)
Row     == [commitment : Commitments, onChain : BOOLEAN]
Rows    == Seq(Row)

Operations == [field : {"root"}, value : Wallets]
              \cup [field : {"note"}, value : Seq(Requests)]
              \cup [field : {"rev"}, value : Commits]

Roots == [root : Wallets \cup {NoWrite}, rev : Commits, note : Seq(Requests)]

CallRecord == [pc : {"idle", "active", "done", "failed"},
               op : Operations \cup {NoWrite}, seen : BOOLEAN, mine : BOOLEAN]

OnItsWay == [op : Operations, by : SUBSET Writers]

Request == [pc : {"idle", "roots", "setting", "reread", "noting", "answered"},
            kind : {"credential", "sync"}, wallet : Wallets \cup {NoWrite},
            chain : Roots \cup {NoWrite}]

TypesOK ==
    /\ write \in [Writers -> CallRecord] /\ held \subseteq OnItsWay
    /\ \A c \in Writers : Is(c, "active") => write[c].op \in Operations
    /\ registry \in Roots /\ rpcReg \in Roots
    /\ revoked \in Rows /\ notes \in Seq(Requests)
    /\ req \in [Requests -> Request]
    /\ revoking \in Wallets \cup {NoWrite}

\* A root of the note file as it was, some notes ago.
PastNote(v) == \E n \in 0..Len(notes) : v = NoteRoot(SubSeq(notes, 1, n))

\* What a request hands over is a root of its own or of the note file.
OwnCall(r) ==
    Is(r, "active") => /\ write[r].op.field # "rev"
                       /\ write[r].op.field = "note" => PastNote(write[r].op.value)

OwnRequest(r) ==
    /\ req[r].pc \in {"roots", "setting", "reread", "noting"} => req[r].wallet \in Wallets
    /\ req[r].pc = "noting" => req[r].chain.root = req[r].wallet /\ r \in ToSet(notes)

RequestsOK ==
    /\ \A r \in Requests : OwnCall(r) /\ OwnRequest(r)
    /\ \A h \in held : h.op.field = "note" => PastNote(h.op.value)
    /\ PastNote(registry.note)

Current == RevWitness(LoadRevoked)

\* The command runs only while the handler blocks, with the list there is; and
\* once its write was seen applied, the registry has that list.
CommandOK ==
    /\ revoking = NoWrite => Is(Cli, "idle")
    /\ Is(Cli, "active") => write[Cli].op = SetRevRoot(Current)
    /\ Is(Cli, "done") \/ (Is(Cli, "active") /\ write[Cli].seen) => registry.rev = Current

\* The registry, the write on its way and the file hold ever longer lists.
ListsOK ==
    /\ IsPrefix(registry.rev, Current)
    /\ \A h \in held : h.op.field = "rev" => /\ IsPrefix(registry.rev, h.op.value)
                                             /\ IsPrefix(h.op.value, Current)

\* While the list fits into the tree, what is marked is in the root.
MarkedOK == Len(LoadRevoked) <= LEAVES /\ OnChainRowsAreInRoot

IssuerInv == TypesOK /\ RequestsOK /\ CommandOK /\ ListsOK /\ IssuedIsOwn

MarkedInv == IssuerInv /\ MarkedOK

-----------------------------------------------------------------------------
(* Lemmas about lists and their roots.                                     *)

LEMMA PrefixIff ==
    ASSUME NEW S, NEW s \in Seq(S), NEW t \in Seq(S)
    PROVE  IsPrefix(s, t) <=> Len(s) <= Len(t) /\ \A i \in 1..Len(s) : s[i] = t[i]
<1>1. Len(s) \in Nat /\ Len(t) \in Nat
  OBVIOUS
<1>2. SubSeq(s, 1, Len(s)) = s
  BY SubSeqFull
<1>3. ASSUME Len(s) <= Len(t)
      PROVE  /\ SubSeq(t, 1, Len(s)) \in Seq(S) /\ Len(SubSeq(t, 1, Len(s))) = Len(s)
             /\ \A i \in 1..Len(s) : SubSeq(t, 1, Len(s))[i] = t[i]
  <2>1. \A i \in 1..Len(s) : t[i] \in S
    BY <1>1, <1>3, ElementOfSeq
  <2>2. 1 \in Int /\ Len(s) \in Int
    BY <1>1
  <2>3. /\ SubSeq(t, 1, Len(s)) \in Seq(S)
        /\ Len(SubSeq(t, 1, Len(s))) = IF 1 <= Len(s) THEN Len(s) - 1 + 1 ELSE 0
        /\ \A i \in 1 .. Len(s) - 1 + 1 : SubSeq(t, 1, Len(s))[i] = t[1 + i - 1]
    BY <2>1, <2>2, SubSeqProperties
  <2>4. QED
    BY <1>1, <2>3
<1>4. ASSUME Len(s) <= Len(t), \A i \in 1..Len(s) : s[i] = t[i]
      PROVE  s = SubSeq(t, 1, Len(s))
  BY <1>3, <1>4, SeqEqual
<1>5. QED
  BY <1>2, <1>3, <1>4 DEF IsPrefix

LEMMA PrefixReflexive == ASSUME NEW S, NEW s \in Seq(S) PROVE IsPrefix(s, s)
BY PrefixIff

LEMMA PrefixTransitive ==
    ASSUME NEW S, NEW s \in Seq(S), NEW t \in Seq(S), NEW u \in Seq(S),
           IsPrefix(s, t), IsPrefix(t, u)
    PROVE  IsPrefix(s, u)
<1>1. Len(s) \in Nat /\ Len(t) \in Nat /\ Len(u) \in Nat
  OBVIOUS
<1>2. Len(s) <= Len(t) /\ \A i \in 1..Len(s) : s[i] = t[i]
  BY PrefixIff
<1>3. Len(t) <= Len(u) /\ \A i \in 1..Len(t) : t[i] = u[i]
  BY PrefixIff
<1>4. Len(s) <= Len(u) /\ \A i \in 1..Len(s) : s[i] = u[i]
  BY <1>1, <1>2, <1>3
<1>5. QED
  BY <1>4, PrefixIff

LEMMA PrefixAntisymmetric ==
    ASSUME NEW S, NEW s \in Seq(S), NEW t \in Seq(S), IsPrefix(s, t), IsPrefix(t, s)
    PROVE  s = t
BY PrefixIff, SeqEqual

\* A longer list has all that a prefix of it has.
LEMMA PrefixElements ==
    ASSUME NEW S, NEW s \in Seq(S), NEW t \in Seq(S), IsPrefix(s, t)
    PROVE  ToSet(s) \subseteq ToSet(t)
BY PrefixIff DEF ToSet

LEMMA FirstIs ==
    ASSUME NEW S, NEW s \in Seq(S)
    PROVE  /\ First(s) \in Seq(S)
           /\ Len(First(s)) = IF Len(s) < LEAVES THEN Len(s) ELSE LEAVES
           /\ \A i \in 1..Len(First(s)) : First(s)[i] = s[i]
<1> DEFINE n == IF Len(s) < LEAVES THEN Len(s) ELSE LEAVES
<1>1. n \in Nat /\ n \in Int /\ 1 \in Int /\ n <= Len(s)
  BY IssuerBounds
<1>2. \A i \in 1..n : s[i] \in S
  BY <1>1, ElementOfSeq
<1> HIDE DEF n
<1>3. /\ SubSeq(s, 1, n) \in Seq(S)
      /\ Len(SubSeq(s, 1, n)) = IF 1 <= n THEN n - 1 + 1 ELSE 0
      /\ \A i \in 1 .. n - 1 + 1 : SubSeq(s, 1, n)[i] = s[1 + i - 1]
  BY <1>1, <1>2, SubSeqProperties
<1>4. First(s) = SubSeq(s, 1, n)
  BY DEF First, n
<1>5. Len(First(s)) = n /\ \A i \in 1..n : First(s)[i] = s[i]
  BY <1>1, <1>3, <1>4
<1>6. QED
  BY <1>3, <1>4, <1>5 DEF n

\* The root of a list is a prefix of the root of a list that goes on.
LEMMA FirstOfPrefix ==
    ASSUME NEW S, NEW s \in Seq(S), NEW t \in Seq(S), IsPrefix(s, t)
    PROVE  IsPrefix(First(s), First(t))
<1>1. Len(s) \in Nat /\ Len(t) \in Nat /\ LEAVES \in Nat
  BY IssuerBounds
<1>2. Len(s) <= Len(t) /\ \A i \in 1..Len(s) : s[i] = t[i]
  BY PrefixIff
<1>3. /\ First(s) \in Seq(S) /\ First(t) \in Seq(S)
      /\ Len(First(s)) = (IF Len(s) < LEAVES THEN Len(s) ELSE LEAVES)
      /\ Len(First(t)) = (IF Len(t) < LEAVES THEN Len(t) ELSE LEAVES)
      /\ \A i \in 1..Len(First(s)) : First(s)[i] = s[i]
      /\ \A i \in 1..Len(First(t)) : First(t)[i] = t[i]
  BY FirstIs
<1>4. Len(First(s)) <= Len(First(t)) /\ \A i \in 1..Len(First(s)) : First(s)[i] = First(t)[i]
  BY <1>1, <1>2, <1>3
<1>5. QED
  BY <1>3, <1>4, PrefixIff

Keys(rows) == [i \in DOMAIN rows |-> rows[i].commitment]

LEMMA KeysAreCommits ==
    ASSUME NEW rows \in Rows
    PROVE  Keys(rows) \in Commits /\ Len(Keys(rows)) = Len(rows)
<1>1. Len(rows) \in Nat /\ DOMAIN rows = 1..Len(rows)
  BY LenProperties DEF Rows
<1>2. \A i \in 1..Len(rows) : rows[i].commitment \in Commitments
  <2>1. \A i \in 1..Len(rows) : rows[i] \in Row
    BY <1>1, ElementOfSeq DEF Rows
  <2>2. QED
    BY <2>1 DEF Row
<1>3. Keys(rows) \in [1..Len(rows) -> Commitments]
  BY <1>1, <1>2 DEF Keys
<1>4. Keys(rows) \in Commits
  <2>1. Keys(rows) \in UNION {[1..n -> Commitments] : n \in Nat}
    BY <1>1, <1>3, Zenon
  <2>2. QED
    BY <2>1, SeqDef, Zenon DEF Commits
<1>5. DOMAIN Keys(rows) = 1..Len(Keys(rows)) /\ Len(Keys(rows)) \in Nat
  BY <1>4, LenProperties DEF Commits
<1>6. QED
  BY <1>1, <1>3, <1>4, <1>5

LEMMA RevWitnessIs ==
    ASSUME NEW rows \in Rows
    PROVE  RevWitness(rows) \in Commits /\ RevWitness(rows) = First(Keys(rows))
BY KeysAreCommits, FirstIs DEF RevWitness, Keys, Commits

LEMMA RevWitnessGrows ==
    ASSUME NEW rows \in Rows, NEW x \in Row
    PROVE  Append(rows, x) \in Rows /\ IsPrefix(RevWitness(rows), RevWitness(Append(rows, x)))
<1> DEFINE more == Append(rows, x)
<1>1. /\ more \in Rows /\ Len(more) = Len(rows) + 1
      /\ \A i \in 1..Len(rows) : more[i] = rows[i]
  BY AppendProperties DEF Rows
<1>2. Len(rows) \in Nat /\ DOMAIN rows = 1..Len(rows) /\ DOMAIN more = 1..Len(more)
  BY <1>1, LenProperties DEF Rows
<1> HIDE DEF more
<1>3. \A i \in 1..Len(rows) : Keys(rows)[i] = Keys(more)[i]
  BY <1>1, <1>2 DEF Keys
<1>4. IsPrefix(Keys(rows), Keys(more))
  BY <1>1, <1>2, <1>3, KeysAreCommits, PrefixIff DEF Commits
<1>5. IsPrefix(First(Keys(rows)), First(Keys(more)))
  BY <1>1, <1>4, KeysAreCommits, FirstOfPrefix DEF Commits
<1>6. QED
  BY <1>1, <1>5, RevWitnessIs DEF more

-----------------------------------------------------------------------------
(* Lemmas about the files.                                                 *)

LEMMA FixtureIsRow == Fixture \in Row
BY DEF Fixture, Row, Commitments

LEMMA LoadedIs ==
    ASSUME revoked \in Rows
    PROVE  /\ LoadRevoked \in Rows /\ HasRow(LoadRevoked, Baseline)
           /\ Current \in Commits
<1>1. LoadRevoked \in Rows
  BY FixtureIsRow, AppendProperties DEF LoadRevoked, Rows
<1>2. HasRow(LoadRevoked, Baseline)
  <2>1. CASE HasRow(revoked, Baseline)
    BY <2>1 DEF LoadRevoked
  <2>2. CASE ~HasRow(revoked, Baseline)
    <3> DEFINE more == Append(revoked, Fixture)
    <3>1. /\ more \in Seq(Row) /\ Len(more) = Len(revoked) + 1 /\ Len(revoked) \in Nat
          /\ more[Len(revoked) + 1] = Fixture
      BY FixtureIsRow, AppendProperties, LenProperties DEF Rows
    <3>2. Len(revoked) + 1 \in DOMAIN more
      BY <3>1, LenProperties
    <3> HIDE DEF more
    <3>3. HasRow(more, Baseline)
      BY <3>1, <3>2 DEF HasRow, Fixture
    <3>4. QED
      BY <2>2, <3>3 DEF LoadRevoked, more
  <2>3. QED
    BY <2>1, <2>2
<1>3. QED
  BY <1>1, <1>2, RevWitnessIs DEF Current

\* A file that has the fixture's row is the list.
LEMMA FileIsList ==
    ASSUME HasRow(revoked', Baseline)
    PROVE  LoadRevoked' = revoked'
BY DEF LoadRevoked, HasRow

\* The list that Revoke hands over is the one the file holds after it, and it
\* goes on from the one before.
LEMMA RevokeGrows ==
    ASSUME revoked \in Rows, NEW k \in Wallets,
           revoked' = IF HasRow(LoadRevoked, k) THEN revoked ELSE RowsWith(k)
    PROVE  /\ revoked' \in Rows /\ RowsWith(k) \in Rows
           /\ LoadRevoked' = RowsWith(k)
           /\ IsPrefix(Current, Current')
<1>1. LoadRevoked \in Rows /\ HasRow(LoadRevoked, Baseline) /\ Current \in Commits
  BY LoadedIs
<1>2. CASE HasRow(LoadRevoked, k)
  <2>1. RowsWith(k) = LoadRevoked /\ revoked' = revoked
    BY <1>2 DEF RowsWith
  <2>2. LoadRevoked' = LoadRevoked
    BY <2>1 DEF LoadRevoked, HasRow
  <2>3. Current' = Current
    BY <2>2 DEF Current, RevWitness, First
  <2>4. QED
    BY <1>1, <2>1, <2>2, <2>3, PrefixReflexive DEF Commits
<1>3. CASE ~HasRow(LoadRevoked, k)
  <2> DEFINE x == [commitment |-> k, onChain |-> FALSE]
             more == Append(LoadRevoked, x)
  <2>1. x \in Row
    BY DEF Row, Commitments
  <2>2. revoked' = more /\ RowsWith(k) = more
    BY <1>3 DEF RowsWith
  <2>3. more \in Rows /\ IsPrefix(Current, RevWitness(more))
    BY <1>1, <2>1, RevWitnessGrows DEF Current
  <2>4. HasRow(more, Baseline)
    <3>1. PICK i \in DOMAIN LoadRevoked : LoadRevoked[i].commitment = Baseline
      BY <1>1 DEF HasRow
    <3>2. /\ DOMAIN LoadRevoked = 1..Len(LoadRevoked) /\ Len(LoadRevoked) \in Nat
          /\ DOMAIN more = 1..Len(more) /\ Len(more) = Len(LoadRevoked) + 1
          /\ \A j \in 1..Len(LoadRevoked) : more[j] = LoadRevoked[j]
      BY <1>1, <2>1, <2>3, AppendProperties, LenProperties DEF Rows
    <3> HIDE DEF more
    <3>3. i \in DOMAIN more /\ more[i].commitment = Baseline
      BY <3>1, <3>2
    <3>4. QED
      BY <3>3 DEF HasRow
  <2> HIDE DEF more
  <2>5. LoadRevoked' = more
    BY <2>2, <2>4, FileIsList DEF HasRow
  <2>6. Current' = RevWitness(more)
    BY <2>5 DEF Current, RevWitness, First
  <2>7. QED
    BY <2>2, <2>3, <2>5, <2>6
<1>4. QED
  BY <1>2, <1>3

\* Marking a row changes no commitment.
LEMMA MarkKeeps ==
    ASSUME revoked \in Rows, NEW k, revoked' = MarkOnChain(LoadRevoked, k)
    PROVE  /\ revoked' \in Rows /\ LoadRevoked' = MarkOnChain(LoadRevoked, k)
           /\ Current' = Current
           /\ Len(LoadRevoked') = Len(LoadRevoked) /\ DOMAIN LoadRevoked' = DOMAIN LoadRevoked
           /\ \A i \in DOMAIN LoadRevoked :
                 LoadRevoked'[i].commitment = LoadRevoked[i].commitment
<1> DEFINE rows == LoadRevoked
           marked == MarkOnChain(rows, k)
<1>1. rows \in Rows /\ HasRow(rows, Baseline)
  BY LoadedIs
<1>2. Len(rows) \in Nat /\ DOMAIN rows = 1..Len(rows) /\ \A i \in 1..Len(rows) : rows[i] \in Row
  BY <1>1, LenProperties, ElementOfSeq DEF Rows
<1> HIDE DEF rows
<1>3. DOMAIN marked = 1..Len(rows) /\ \A i \in 1..Len(rows) : marked[i] \in Row
                                         /\ marked[i].commitment = rows[i].commitment
  BY <1>2 DEF MarkOnChain, Row
<1>4. marked \in [1..Len(rows) -> Row]
  BY <1>2, <1>3 DEF MarkOnChain
<1>5. marked \in Rows
  <2>1. marked \in UNION {[1..n -> Row] : n \in Nat}
    BY <1>2, <1>4, Zenon
  <2>2. QED
    BY <2>1, SeqDef, Zenon DEF Rows
<1>6. Len(marked) = Len(rows)
  <2>1. DOMAIN marked = 1..Len(marked) /\ Len(marked) \in Nat
    BY <1>5, LenProperties DEF Rows
  <2>2. QED
    BY <1>2, <1>3, <2>1
<1>7. HasRow(marked, Baseline)
  BY <1>1, <1>2, <1>3 DEF HasRow
<1>8. revoked' = marked
  BY DEF rows
<1> HIDE DEF marked
<1>9. LoadRevoked' = marked
  BY <1>7, <1>8, FileIsList DEF HasRow
<1>10. Keys(marked) = Keys(rows)
  BY <1>2, <1>3 DEF Keys
<1>11. RevWitness(marked) = RevWitness(rows)
  BY <1>1, <1>5, <1>10, RevWitnessIs
<1>12. Current' = RevWitness(marked)
  BY <1>9 DEF Current, RevWitness, First
<1>13. QED
  BY <1>2, <1>3, <1>5, <1>6, <1>8, <1>9, <1>11, <1>12 DEF Current, rows, marked

\* A root of the file is one when more notes follow.
LEMMA PastNoteStays ==
    ASSUME notes \in Seq(Requests), NEW r \in Requests,
           notes' = notes \/ notes' = Append(notes, r), NEW v, PastNote(v)
    PROVE  PastNote(v)'
<1>1. CASE notes' = notes
  BY <1>1 DEF PastNote, NoteRoot, First
<1>2. CASE notes' = Append(notes, r)
  <2>1. PICK n \in 0..Len(notes) : v = NoteRoot(SubSeq(notes, 1, n))
    BY DEF PastNote
  <2>2. Len(notes) \in Nat /\ Len(notes') = Len(notes) + 1
    BY <1>2
  <2>3. SubSeq(notes', 1, n) = SubSeq(notes, 1, n)
    <3>1. CASE n = 0
      BY <3>1, SubSeqEmpty
    <3>2. CASE n # 0
      <4>1. notes' = notes \o <<r>>
        BY <1>2, AppendIsConcat
      <4>2. 1 \in 1..Len(notes) /\ n \in 1..Len(notes) /\ <<r>> \in Seq(Requests)
        BY <2>2, <3>2
      <4>3. QED
        BY <4>1, <4>2, SubSeqOfConcat1
    <3>3. QED
      BY <3>1, <3>2
  <2>4. n \in 0..Len(notes') /\ v = NoteRoot(SubSeq(notes', 1, n))
    <3>1. n \in 0..Len(notes')
      BY <2>2
    <3>2. QED
      BY <2>1, <2>3, <3>1
  <2>5. QED
    BY <2>4 DEF PastNote, NoteRoot, First
<1>3. QED
  BY <1>1, <1>2

-----------------------------------------------------------------------------
(* Steps of the request handlers.                                          *)

\* The write on its way is the same for whomever it is made.
LEMMA DisownKeeps ==
    ASSUME held \subseteq OnItsWay, NEW C, Disown(C)
    PROVE  held' \subseteq OnItsWay /\ \A h \in held' : \E g \in held : g.op = h.op
BY DEF Disown, OnItsWay

LEMMA RestingIs ==
    Resting \in CallRecord /\ Resting.pc = "idle" /\ ~Resting.seen
BY DEF Resting, CallRecord

LEMMA WritersAre == Requests \subseteq Writers /\ Cli \in Writers /\ Cli \notin Requests
BY WritersAssumption

\* The types, in the words of the lemmas.
LEMMA IssuerFacts ==
    ASSUME IssuerInv
    PROVE  /\ write \in [Writers -> CallRecord] /\ held \subseteq OnItsWay
           /\ registry \in Roots /\ rpcReg \in Roots
           /\ revoked \in Rows /\ notes \in Seq(Requests) /\ req \in [Requests -> Request]
           /\ revoking \in Wallets \cup {NoWrite}
           /\ \A h \in held : \E g \in held : g.op = h.op
BY DEF IssuerInv, TypesOK

\* A step of the handler of r: it starts or ends its own call, may append a
\* note of its own, and moves on or answers.
LEMMA RequestStep ==
    ASSUME IssuerInv, NEW r \in Requests, UNCHANGED <<registry, rpcReg, revoked, revoking>>,
           notes' = notes \/ notes' = Append(notes, r),
           write' \in [Writers -> CallRecord], \A c \in Writers \ {r} : write'[c] = write[c],
           Is(r, "active")' => write'[r].op \in Operations, OwnCall(r)',
           held' \subseteq OnItsWay, \A h \in held' : \E g \in held : g.op = h.op,
           req' \in [Requests -> Request], \A s \in Requests \ {r} : req'[s] = req[s],
           OwnRequest(r)',
           \A c \in issued' :
               c \in issued \/ (c.root = c.wallet /\ c.note \in ToSet(notes') \cup {NoWrite})
    PROVE  IssuerInv'
<1>1. notes' \in Seq(Requests) /\ ToSet(notes) \subseteq ToSet(notes')
  <2>1. CASE notes' = notes
    BY <2>1, IssuerFacts
  <2>2. CASE notes' = Append(notes, r)
    <3>1. /\ Len(notes) \in Nat /\ DOMAIN notes = 1..Len(notes) /\ notes' \in Seq(Requests)
          /\ DOMAIN notes' = 1..Len(notes') /\ Len(notes') = Len(notes) + 1
          /\ \A i \in 1..Len(notes) : notes'[i] = notes[i]
      BY <2>2, AppendProperties, LenProperties, IssuerFacts
    <3>2. QED
      BY <3>1 DEF ToSet
  <2>3. QED
    BY <2>1, <2>2
<1>2. TypesOK'
  BY <1>1 DEF IssuerInv, TypesOK, Is
<1>3. ASSUME NEW v, PastNote(v) PROVE PastNote(v)'
  BY <1>3, PastNoteStays, IssuerFacts
<1>4. RequestsOK'
  <2>1. ASSUME NEW s \in Requests PROVE OwnCall(s)'
    <3>1. CASE s = r
      BY <3>1
    <3>2. CASE s # r
      <4>1. write'[s] = write[s] /\ OwnCall(s)
        BY <3>2, WritersAre DEF IssuerInv, RequestsOK
      <4>2. QED
        BY <4>1, <1>3 DEF OwnCall, Is
    <3>3. QED
      BY <3>1, <3>2
  <2>2. ASSUME NEW s \in Requests PROVE OwnRequest(s)'
    <3>1. CASE s = r
      BY <3>1
    <3>2. CASE s # r
      <4>1. req'[s] = req[s] /\ OwnRequest(s)
        BY <3>2 DEF IssuerInv, RequestsOK
      <4>2. QED
        BY <4>1, <1>1 DEF OwnRequest
    <3>3. QED
      BY <3>1, <3>2
  <2>3. ASSUME NEW h \in held', h.op.field = "note" PROVE PastNote(h.op.value)'
    <3>1. PICK g \in held : g.op = h.op
      OBVIOUS
    <3>2. PastNote(h.op.value)
      BY <2>3, <3>1 DEF IssuerInv, RequestsOK
    <3>3. QED
      BY <1>3, <3>2
  <2>4. PastNote(registry.note)'
    <3>1. PICK v : v = registry.note
      OBVIOUS
    <3>2. PastNote(v)
      BY <3>1 DEF IssuerInv, RequestsOK
    <3>3. PastNote(v)'
      BY <1>3, <3>2
    <3>4. registry'.note = v
      BY <3>1
    <3>5. QED
      BY <3>3, <3>4 DEF PastNote, NoteRoot, First
  <2>5. QED
    BY <2>1, <2>2, <2>3, <2>4 DEF RequestsOK
<1>5. LoadRevoked' = LoadRevoked
  BY DEF LoadRevoked, HasRow
<1>6. Current' = Current
  BY <1>5 DEF Current, RevWitness, First
<1>7. write'[Cli] = write[Cli]
  BY WritersAre
<1>8. CommandOK'
  BY <1>6, <1>7 DEF IssuerInv, CommandOK, Is
<1>9. ListsOK'
  BY <1>6 DEF IssuerInv, ListsOK
<1>10. IssuedIsOwn'
  BY <1>1 DEF IssuerInv, IssuedIsOwn
<1>11. QED
  BY <1>2, <1>4, <1>8, <1>9, <1>10 DEF IssuerInv

\* A step of the handler of r that appends no note and starts no call.
LEMMA QuietStep ==
    ASSUME IssuerInv, NEW r \in Requests,
           UNCHANGED <<registry, rpcReg, revoked, notes, revoking>>,
           UNCHANGED writeVars
             \/ (write' = [write EXCEPT ![r] = Resting] /\ Disown({r})),
           NEW q \in Request, req' = [req EXCEPT ![r] = q],
           q.pc \in {"roots", "setting", "reread", "noting"} => q.wallet \in Wallets,
           q.pc # "noting",
           \A c \in issued' :
               c \in issued \/ (c.root = c.wallet /\ c.note \in ToSet(notes) \cup {NoWrite})
    PROVE  IssuerInv'
<1>1. /\ write' \in [Writers -> CallRecord] /\ \A c \in Writers \ {r} : write'[c] = write[c]
      /\ write'[r] = write[r] \/ write'[r] = Resting
  BY IssuerFacts, RestingIs, WritersAre DEF writeVars
<1>2. Is(r, "active") => OwnCall(r) /\ write[r].op \in Operations
  BY WritersAre DEF IssuerInv, RequestsOK, TypesOK
<1>3. Is(r, "active")' => write'[r] = write[r]
  BY <1>1, RestingIs DEF Is
<1>4. OwnCall(r)' /\ (Is(r, "active")' => write'[r].op \in Operations)
  BY <1>2, <1>3 DEF OwnCall, Is, PastNote, NoteRoot, First
<1>5. held' \subseteq OnItsWay /\ \A h \in held' : \E g \in held : g.op = h.op
  BY IssuerFacts, DisownKeeps DEF writeVars
<1>6. /\ req' \in [Requests -> Request] /\ \A s \in Requests \ {r} : req'[s] = req[s]
      /\ req'[r] = q
  BY IssuerFacts
<1>7. OwnRequest(r)'
  BY <1>6 DEF OwnRequest
<1>8. QED
  BY <1>1, <1>4, <1>5, <1>6, <1>7, RequestStep

\* A step of the handler of r that starts a call.
LEMMA StartStep ==
    ASSUME IssuerInv, NEW r \in Requests, UNCHANGED <<registry, rpcReg, revoked, revoking, issued>>,
           notes' = notes \/ notes' = Append(notes, r),
           NEW op \in Operations, Start(r, op), op.field # "rev",
           op.field = "note" => PastNote(op.value)',
           NEW q \in Request, req' = [req EXCEPT ![r] = q], q.wallet \in Wallets,
           q.pc = "noting" => q.chain.root = q.wallet /\ r \in ToSet(notes')
    PROVE  IssuerInv'
<1> DEFINE x == [Resting EXCEPT !.pc = "active", !.op = op]
<1>1. x \in CallRecord /\ x.op = op
  BY DEF Resting, CallRecord
<1>2. write' = [write EXCEPT ![r] = x] /\ Disown({r})
  BY DEF Start
<1> HIDE DEF x
<1>3. /\ write' \in [Writers -> CallRecord] /\ \A c \in Writers \ {r} : write'[c] = write[c]
      /\ write'[r] = x
  BY <1>1, <1>2, IssuerFacts, WritersAre
<1>4. write'[r].op = op
  BY <1>1, <1>3
<1>5. OwnCall(r)' /\ (Is(r, "active")' => write'[r].op \in Operations)
  <2>1. op.field = "note" => PastNote(write[r].op.value)'
    BY <1>4 DEF PastNote, NoteRoot, First
  <2>2. QED
    BY <1>4, <2>1 DEF OwnCall, Is
<1>6. held' \subseteq OnItsWay /\ \A h \in held' : \E g \in held : g.op = h.op
  BY <1>2, IssuerFacts, DisownKeeps
<1>7. /\ req' \in [Requests -> Request] /\ \A s \in Requests \ {r} : req'[s] = req[s]
      /\ req'[r] = q
  BY IssuerFacts
<1>8. OwnRequest(r)'
  BY <1>7 DEF OwnRequest
<1>9. \A c \in issued' : c \in issued
  OBVIOUS
<1>10. QED
  BY <1>3, <1>5, <1>6, <1>7, <1>8, <1>9, RequestStep

LEMMA FreshIsRequest == Fresh \in Request /\ Gone \in Request /\ Gone.pc = "answered"
BY DEF Fresh, Gone, Request

LEMMA ArriveStep ==
    ASSUME IssuerInv, NEW r \in Requests, NEW kind \in {"credential", "sync"}, NEW w \in Wallets,
           Arrive(r, kind, w)
    PROVE  IssuerInv'
<1> DEFINE q == [pc |-> "roots", kind |-> kind, wallet |-> w, chain |-> NoWrite]
<1>1. q \in Request /\ q.pc = "roots" /\ q.wallet \in Wallets
  BY DEF Request
<1>2. /\ req' = [req EXCEPT ![r] = q] /\ UNCHANGED writeVars
      /\ UNCHANGED <<registry, rpcReg, revoked, notes, revoking>> /\ issued' = issued
  BY DEF Arrive, files
<1> HIDE DEF q
<1>3. QED
  BY <1>1, <1>2, QuietStep

LEMMA ReadFailsStep == ASSUME IssuerInv, NEW r \in Requests, ReadFails(r) PROVE IssuerInv'
<1>1. /\ req' = [req EXCEPT ![r] = Gone] /\ UNCHANGED writeVars
      /\ UNCHANGED <<registry, rpcReg, revoked, notes, revoking>> /\ issued' = issued
  BY DEF ReadFails, Answer, files
<1>2. QED
  BY <1>1, FreshIsRequest, QuietStep

LEMMA RootWrittenStep == ASSUME IssuerInv, NEW r \in Requests, RootWritten(r) PROVE IssuerInv'
<1>1. /\ write' = [write EXCEPT ![r] = Resting] /\ Disown({r})
      /\ UNCHANGED <<registry, rpcReg, revoked, notes, revoking>> /\ issued' = issued
  BY DEF RootWritten, Return, files
<1>2. PICK q \in Request : /\ req' = [req EXCEPT ![r] = q]
                           /\ q.pc \in {"reread", "answered"}
                           /\ q.pc = "reread" => q.wallet \in Wallets
  <2>1. CASE Answer(r)
    BY <2>1, FreshIsRequest DEF Answer
  <2>2. CASE Become(r, "reread")
    <3> DEFINE q == [req[r] EXCEPT !.pc = "reread"]
    <3>1. req[r] \in Request /\ req[r].wallet \in Wallets
      BY IssuerFacts DEF RootWritten, In, IssuerInv, RequestsOK, OwnRequest
    <3>2. q \in Request /\ q.pc = "reread" /\ q.wallet \in Wallets
      BY <3>1 DEF Request
    <3>3. req' = [req EXCEPT ![r] = q]
      BY <2>2, IssuerFacts DEF Become
    <3>4. QED
      BY <3>2, <3>3
  <2>3. QED
    BY <2>1, <2>2 DEF RootWritten
<1>3. QED
  BY <1>1, <1>2, QuietStep

LEMMA IssueStep == ASSUME IssuerInv, NEW r \in Requests, Issue(r) PROVE IssuerInv'
<1> DEFINE c == Credential(r, req[r].chain, r)
<1>1. /\ write' = [write EXCEPT ![r] = Resting] /\ Disown({r})
      /\ UNCHANGED <<registry, rpcReg, revoked, notes, revoking>>
      /\ issued' = issued \cup {c} /\ req' = [req EXCEPT ![r] = Gone]
  BY DEF Issue, Return, files, Answer
<1>2. req[r].chain.root = req[r].wallet /\ r \in ToSet(notes)
  BY DEF Issue, In, IssuerInv, RequestsOK, OwnRequest
<1>3. c.root = c.wallet /\ c.note \in ToSet(notes) \cup {NoWrite}
  BY <1>2 DEF Credential
<1> HIDE DEF c
<1>4. \A d \in issued' :
        d \in issued \/ (d.root = d.wallet /\ d.note \in ToSet(notes) \cup {NoWrite})
  BY <1>1, <1>3
<1>5. QED
  BY <1>1, <1>4, FreshIsRequest, QuietStep

\* The roots are answered, or checked, and a note appended and handed over or
\* the credential issued without one.
LEMMA ProceedOK ==
    ASSUME IssuerInv, NEW r \in Requests, req[r].wallet \in Wallets,
           Proceed(r, rpcReg), UNCHANGED <<registry, rpcReg, revoking>>
    PROVE  IssuerInv'
<1>1. CASE Answer(r) /\ UNCHANGED <<writeVars, files, issued>>
  <2>1. /\ req' = [req EXCEPT ![r] = Gone] /\ UNCHANGED writeVars
        /\ UNCHANGED <<registry, rpcReg, revoked, notes, revoking>> /\ issued' = issued
    BY <1>1 DEF Answer, files
  <2>2. QED
    BY <2>1, FreshIsRequest, QuietStep
<1>2. CASE Builds(req[r].wallet, rpcReg) /\ IssueWithNote(r, rpcReg)
  <2>1. /\ notes' = Append(notes, r) /\ Start(r, SetNoteRoot(NoteRoot(notes')))
        /\ UNCHANGED <<revoked, issued>>
    BY <1>2 DEF IssueWithNote, AppendNote
  <2>2. /\ notes' \in Seq(Requests) /\ Len(notes') \in Nat
        /\ Len(notes') \in DOMAIN notes' /\ notes'[Len(notes')] = r
    BY <2>1, IssuerFacts, AppendProperties, LenProperties
  <2>3. r \in ToSet(notes')
    BY <2>2 DEF ToSet
  <2>4. PICK v \in Seq(Requests) : v = NoteRoot(notes')
    BY <2>2, FirstIs DEF NoteRoot
  <2>5. PICK op \in Operations : op = SetNoteRoot(v)
    BY <2>4 DEF SetNoteRoot, Operations
  <2>6. op.field = "note" /\ op.value = v /\ Start(r, op)
    BY <2>1, <2>4, <2>5 DEF SetNoteRoot
  <2>7. PastNote(v)'
    <3>1. SubSeq(notes', 1, Len(notes')) = notes' /\ Len(notes') \in 0..Len(notes')
      BY <2>2, SubSeqFull
    <3>2. QED
      BY <2>4, <3>1 DEF PastNote, NoteRoot, First
  <2>8. PastNote(op.value)'
    BY <2>6, <2>7
  <2> DEFINE q == [req[r] EXCEPT !.pc = "noting", !.chain = rpcReg]
  <2>9. /\ q \in Request /\ q.pc = "noting" /\ q.wallet \in Wallets
        /\ q.chain.root = q.wallet
        /\ req' = [req EXCEPT ![r] = q]
    BY <1>2, IssuerFacts DEF IssueWithNote, Builds, Request
  <2> HIDE DEF q
  <2>10. QED
    BY <2>1, <2>3, <2>6, <2>8, <2>9, StartStep
<1>3. CASE Builds(req[r].wallet, rpcReg) /\ IssueWithoutNote(r, rpcReg)
  <2> DEFINE c == Credential(r, rpcReg, NoWrite)
  <2>1. /\ req' = [req EXCEPT ![r] = Gone] /\ UNCHANGED writeVars
        /\ UNCHANGED <<registry, rpcReg, revoked, notes, revoking>>
        /\ issued' = issued \cup {c}
    BY <1>3 DEF IssueWithoutNote, Answer, files
  <2>2. c.root = c.wallet /\ c.note \in ToSet(notes) \cup {NoWrite}
    BY <1>3 DEF Credential, Builds
  <2> HIDE DEF c
  <2>3. \A d \in issued' :
          d \in issued \/ (d.root = d.wallet /\ d.note \in ToSet(notes) \cup {NoWrite})
    BY <2>1, <2>2
  <2>4. QED
    BY <2>1, <2>3, FreshIsRequest, QuietStep
<1>4. QED
  BY <1>1, <1>2, <1>3 DEF Proceed

LEMMA ReadRootsStep == ASSUME IssuerInv, NEW r \in Requests, ReadRoots(r) PROVE IssuerInv'
<1>1. req[r].wallet \in Wallets /\ UNCHANGED <<registry, rpcReg, revoking>>
  BY DEF ReadRoots, In, IssuerInv, RequestsOK, OwnRequest
<1>2. CASE rpcReg.root = req[r].wallet
  BY <1>1, <1>2, ProceedOK DEF ReadRoots
<1>3. CASE rpcReg.root # req[r].wallet
  <2>1. /\ Start(r, SetRoot(req[r].wallet)) /\ Become(r, "setting")
        /\ revoked' = revoked /\ notes' = notes /\ issued' = issued
    BY <1>3 DEF ReadRoots, files
  <2>2. PICK op \in Operations : op = SetRoot(req[r].wallet)
    BY <1>1 DEF SetRoot, Operations
  <2>3. op.field = "root" /\ Start(r, op)
    BY <2>1, <2>2 DEF SetRoot
  <2> DEFINE q == [req[r] EXCEPT !.pc = "setting"]
  <2>4. /\ q \in Request /\ q.pc = "setting" /\ q.wallet \in Wallets
        /\ req' = [req EXCEPT ![r] = q]
    BY <1>1, <2>1, IssuerFacts DEF Request, Become
  <2> HIDE DEF q
  <2>5. QED
    BY <1>1, <2>1, <2>3, <2>4, StartStep
<1>4. QED
  BY <1>2, <1>3

LEMMA RereadRootsStep == ASSUME IssuerInv, NEW r \in Requests, RereadRoots(r) PROVE IssuerInv'
<1>1. req[r].wallet \in Wallets
  BY DEF RereadRoots, In, IssuerInv, RequestsOK, OwnRequest
<1>2. QED
  BY <1>1, ProceedOK DEF RereadRoots

LEMMA HandlerStep == ASSUME IssuerInv, NEW r \in Requests, Handler(r) PROVE IssuerInv'
BY ReadRootsStep, RootWrittenStep, RereadRootsStep, ReadFailsStep, IssueStep DEF Handler

-----------------------------------------------------------------------------
(* Steps of the network.                                                   *)

\* A call ends or a write changes hands, and nothing else happens.
LEMMA NetworkStep ==
    ASSUME IssuerInv, UNCHANGED <<registry, rpcReg, revoked, notes, req, revoking, issued>>,
           write' \in [Writers -> CallRecord],
           \A c \in Writers : /\ write'[c].op = write[c].op
                              /\ Is(c, "active")' => Is(c, "active")
                              /\ Is(c, "idle") => Is(c, "idle")',
           Is(Cli, "done")' \/ (Is(Cli, "active")' /\ write'[Cli].seen)
             => Is(Cli, "done") \/ (Is(Cli, "active") /\ write[Cli].seen),
           held' \subseteq OnItsWay,
           \A h \in held' : \/ \E g \in held : g.op = h.op
                           \/ \E c \in Writers : Is(c, "active") /\ write[c].op = h.op
    PROVE  IssuerInv'
<1>1. TypesOK'
  BY DEF IssuerInv, TypesOK
<1>2. ASSUME NEW v, PastNote(v) PROVE PastNote(v)'
  BY <1>2 DEF PastNote, NoteRoot, First
<1>3. Current' = Current
  BY DEF Current, RevWitness, First, LoadRevoked, HasRow
<1>4. ASSUME NEW h \in held', h.op.field = "note" PROVE PastNote(h.op.value)'
  <2>1. ASSUME NEW c \in Writers, Is(c, "active"), write[c].op = h.op PROVE PastNote(h.op.value)
    <3>1. CASE c = Cli
      BY <3>1, <2>1, <1>4 DEF IssuerInv, CommandOK, SetRevRoot
    <3>2. CASE c \in Requests
      BY <3>2, <2>1, <1>4 DEF IssuerInv, RequestsOK, OwnCall
    <3>3. QED
      BY <3>1, <3>2, WritersAssumption
  <2>2. ASSUME NEW g \in held, g.op = h.op PROVE PastNote(h.op.value)
    BY <2>2, <1>4 DEF IssuerInv, RequestsOK
  <2>3. PastNote(h.op.value)
    BY <2>1, <2>2
  <2>4. QED
    BY <1>2, <2>3
<1>5. RequestsOK'
  <2>1. ASSUME NEW r \in Requests PROVE OwnCall(r)' /\ OwnRequest(r)'
    BY WritersAre DEF IssuerInv, RequestsOK, OwnCall, OwnRequest, PastNote, NoteRoot, First
  <2>2. PastNote(registry.note)'
    BY DEF IssuerInv, RequestsOK, PastNote, NoteRoot, First
  <2>3. QED
    BY <2>1, <2>2, <1>4 DEF RequestsOK
<1>6. CommandOK'
  BY <1>3, WritersAre DEF IssuerInv, CommandOK
<1>7. ListsOK'
  <2>1. Current \in Commits /\ IsPrefix(Current, Current)
    BY LoadedIs, PrefixReflexive, IssuerFacts DEF Commits
  <2>2. ASSUME NEW h \in held', h.op.field = "rev"
        PROVE  IsPrefix(registry.rev, h.op.value) /\ IsPrefix(h.op.value, Current)
    <3>1. ASSUME NEW c \in Writers, Is(c, "active"), write[c].op = h.op
          PROVE  h.op.value = Current
      <4>1. c = Cli
        BY <3>1, <2>2, WritersAssumption DEF IssuerInv, RequestsOK, OwnCall
      <4>2. QED
        BY <3>1, <4>1 DEF IssuerInv, CommandOK, SetRevRoot
    <3>2. QED
      BY <3>1, <2>1, <2>2 DEF IssuerInv, ListsOK
  <2>3. QED
    BY <2>2, <1>3 DEF IssuerInv, ListsOK
<1>8. IssuedIsOwn'
  BY DEF IssuerInv, IssuedIsOwn
<1>9. QED
  BY <1>1, <1>5, <1>6, <1>7, <1>8 DEF IssuerInv

LEMMA TakenIs ==
    ASSUME IssuerInv, NEW c \in Writers, Taken(c)
    PROVE  /\ held' \subseteq OnItsWay
           /\ \A h \in held' : \E d \in Writers : Is(d, "active") /\ write[d].op = h.op
<1>1. PICK D \in SUBSET Sharing(c) : held' = {[op |-> write[c].op, by |-> {c} \cup D]}
  BY DEF Taken
<1>2. Is(c, "active") /\ write[c].op \in Operations /\ DOMAIN write = Writers
  BY IssuerFacts DEF Taken, IssuerInv, TypesOK
<1>3. {c} \cup D \in SUBSET Writers
  BY <1>2 DEF Sharing
<1>4. QED
  BY <1>1, <1>2, <1>3 DEF OnItsWay

LEMMA HandOverStep == ASSUME IssuerInv, NEW c \in Writers, HandOver(c) PROVE IssuerInv'
<1>1. write' = write /\ Taken(c)
      /\ UNCHANGED <<registry, rpcReg, revoked, notes, req, revoking, issued>>
  BY DEF HandOver, Take, Others, files
<1>2. \A d \in Writers : Is(d, "active")' = Is(d, "active") /\ Is(d, "idle")' = Is(d, "idle")
  BY <1>1 DEF Is
<1>3. Is(Cli, "done")' = Is(Cli, "done") /\ Is(Cli, "active")' = Is(Cli, "active")
  BY <1>1 DEF Is
<1>4. QED
  BY <1>1, <1>2, <1>3, TakenIs, IssuerFacts, NetworkStep

LEMMA CallEndsStep == ASSUME IssuerInv, NEW c \in Writers, CallEnds(c) PROVE IssuerInv'
<1>1. UNCHANGED <<registry, rpcReg, revoked, notes, req, revoking, issued>>
  BY DEF CallEnds, Others, files
<1>2. PICK pc \in {"done", "failed"} :
          Ended(c, pc) /\ Is(c, "active") /\ (pc = "done" => write[c].seen)
  BY DEF CallEnds, TakeAndFail, Taken, Succeed, Fail
<1>3. /\ write' \in [Writers -> CallRecord]
      /\ \A d \in Writers \ {c} : write'[d] = write[d]
      /\ write'[c].op = write[c].op /\ write'[c].pc = pc
  <2>1. write \in [Writers -> CallRecord]
    BY IssuerFacts
  <2>2. QED
    BY <1>2, <2>1 DEF Ended, CallRecord
<1>4. \A d \in Writers : /\ write'[d].op = write[d].op
                         /\ Is(d, "active")' => Is(d, "active")
                         /\ Is(d, "idle") => Is(d, "idle")'
  BY <1>2, <1>3 DEF Is
<1>5. Is(Cli, "done")' \/ (Is(Cli, "active")' /\ write'[Cli].seen)
         => Is(Cli, "done") \/ (Is(Cli, "active") /\ write[Cli].seen)
  BY <1>2, <1>3, WritersAre DEF Is
<1>6. /\ held' \subseteq OnItsWay
      /\ \A h \in held' : \/ \E g \in held : g.op = h.op
                          \/ \E d \in Writers : Is(d, "active") /\ write[d].op = h.op
  <2>1. CASE Taken(c)
    BY <2>1, TakenIs
  <2>2. CASE UNCHANGED held
    BY <2>2, IssuerFacts
  <2>3. QED
    BY <2>1, <2>2 DEF CallEnds, TakeAndFail, Succeed, Fail
<1>7. QED
  BY <1>1, <1>3, <1>4, <1>5, <1>6, NetworkStep

LEMMA LoseStep == ASSUME IssuerInv, NEW h \in held, Lose(h) PROVE IssuerInv'
<1>1. write' = write /\ held' = {}
      /\ UNCHANGED <<registry, rpcReg, revoked, notes, req, revoking, issued>>
  BY DEF Lose, Dropped, files
<1>2. \A d \in Writers : Is(d, "active")' = Is(d, "active") /\ Is(d, "idle")' = Is(d, "idle")
  BY <1>1 DEF Is
<1>3. Is(Cli, "done")' = Is(Cli, "done") /\ Is(Cli, "active")' = Is(Cli, "active")
  BY <1>1 DEF Is
<1>4. QED
  BY <1>1, <1>2, <1>3, IssuerFacts, NetworkStep

\* What is stored is the list that a command waits for, or an older one.
LEMMA StoreStep ==
    ASSUME IssuerInv, NEW h \in held, Store(h)
    PROVE  IssuerInv' /\ IsPrefix(registry.rev, registry'.rev)
<1> DEFINE op == h.op
<1>1. /\ held' = {} /\ registry' = [registry EXCEPT ![op.field] = op.value]
      /\ UNCHANGED <<rpcReg, revoked, notes, req, revoking, issued>>
      /\ op \in Operations
  BY IssuerFacts DEF Store, Applied, files, OnItsWay
<1>2. /\ op.field = "note" => PastNote(op.value)
      /\ op.field = "rev" => IsPrefix(registry.rev, op.value) /\ IsPrefix(op.value, Current)
  BY DEF IssuerInv, RequestsOK, ListsOK
<1>3. /\ write' \in [Writers -> CallRecord]
      /\ \A c \in Writers : /\ write'[c].op = write[c].op /\ write'[c].pc = write[c].pc
                            /\ write'[c].seen => write[c].seen
                                                 \/ (Is(c, "active") /\ op = write[c].op)
  <2>1. /\ write \in [Writers -> CallRecord]
        /\ write' = [c \in DOMAIN write |->
               [write[c] EXCEPT !.mine = write[c].mine \/ c \in h.by,
                                !.seen = write[c].seen
                                         \/ (Is(c, "active") /\ op = write[c].op)]]
    BY IssuerFacts DEF Store, Applied
  <2>2. ASSUME NEW c \in Writers
        PROVE  /\ write'[c] \in CallRecord
               /\ write'[c].op = write[c].op /\ write'[c].pc = write[c].pc
               /\ write'[c].seen <=> write[c].seen \/ (Is(c, "active") /\ op = write[c].op)
    <3>1. write[c] \in CallRecord
      BY <2>1
    <3>2. PICK m, n : /\ m \in BOOLEAN /\ n \in BOOLEAN
                      /\ n = (write[c].seen \/ (Is(c, "active") /\ op = write[c].op))
                      /\ write'[c] = [write[c] EXCEPT !.mine = m, !.seen = n]
      <4>1. /\ (write[c].mine \/ c \in h.by) \in BOOLEAN
            /\ (write[c].seen \/ (Is(c, "active") /\ op = write[c].op)) \in BOOLEAN
        OBVIOUS
      <4>2. write'[c] = [write[c] EXCEPT !.mine = write[c].mine \/ c \in h.by,
                                         !.seen = write[c].seen
                                                  \/ (Is(c, "active") /\ op = write[c].op)]
        BY <2>1
      <4>3. QED
        BY <4>1, <4>2, Zenon
    <3>3. QED
      BY <3>1, <3>2 DEF CallRecord
  <2>3. QED
    BY <2>1, <2>2
<1> HIDE DEF op
<1>4. registry \in Roots /\ registry.rev \in Commits /\ Current \in Commits
  BY IssuerFacts, LoadedIs DEF Roots
<1>5. \/ op.field = "rev" /\ registry'.rev = op.value /\ registry'.note = registry.note
      \/ op.field = "note" /\ registry'.note = op.value /\ registry'.rev = registry.rev
      \/ op.field = "root" /\ registry'.note = registry.note /\ registry'.rev = registry.rev
  BY <1>1, <1>4 DEF Operations, Roots
<1>6. registry' \in Roots
  BY <1>1, <1>4 DEF Operations, Roots, Commits
<1>7. TypesOK'
  BY <1>1, <1>3, <1>6 DEF IssuerInv, TypesOK, Is
<1>8. Current' = Current
  BY <1>1 DEF Current, RevWitness, First, LoadRevoked, HasRow
<1>9. RequestsOK'
  <2>1. ASSUME NEW r \in Requests PROVE OwnCall(r)' /\ OwnRequest(r)'
    BY <1>1, <1>3, WritersAre
    DEF IssuerInv, RequestsOK, OwnCall, OwnRequest, PastNote, NoteRoot, First, Is
  <2>2. PastNote(registry.note)'
    BY <1>1, <1>2, <1>5 DEF IssuerInv, RequestsOK, PastNote, NoteRoot, First
  <2>3. QED
    BY <1>1, <2>1, <2>2 DEF RequestsOK
<1>10. IsPrefix(registry.rev, registry'.rev) /\ IsPrefix(registry'.rev, Current)
  BY <1>2, <1>4, <1>5, PrefixReflexive DEF IssuerInv, ListsOK, Commits
<1>11. CommandOK'
  <2>1. ASSUME registry.rev = Current PROVE registry'.rev = Current
    <3>1. registry'.rev \in Commits
      BY <1>6 DEF Roots
    <3>2. QED
      BY <1>4, <1>10, <2>1, <3>1, PrefixAntisymmetric DEF Commits
  <2>2. ASSUME Is(Cli, "active"), op = write[Cli].op PROVE registry'.rev = Current
    BY <1>5, <2>2 DEF IssuerInv, CommandOK, SetRevRoot
  <2>3. QED
    BY <1>1, <1>3, <1>8, <2>1, <2>2, WritersAre DEF IssuerInv, CommandOK, Is
<1>12. ListsOK'
  BY <1>1, <1>8, <1>10 DEF ListsOK
<1>13. IssuedIsOwn'
  BY <1>1 DEF IssuerInv, IssuedIsOwn
<1>14. QED
  BY <1>7, <1>9, <1>10, <1>11, <1>12, <1>13 DEF IssuerInv

LEMMA RpcStep == ASSUME IssuerInv, RpcCatchesUp PROVE IssuerInv'
<1>1. rpcReg' = registry /\ UNCHANGED <<held, write, registry, revoked, notes, req, revoking, issued>>
  BY DEF RpcCatchesUp, writeVars, files
<1>2. TypesOK'
  BY <1>1 DEF IssuerInv, TypesOK, Is
<1>3. RequestsOK'
  BY <1>1 DEF IssuerInv, RequestsOK, OwnCall, OwnRequest, PastNote, NoteRoot, First, Is
<1>4. Current' = Current
  BY <1>1 DEF Current, RevWitness, First, LoadRevoked, HasRow
<1>5. CommandOK' /\ ListsOK' /\ IssuedIsOwn'
  BY <1>1, <1>4 DEF IssuerInv, CommandOK, ListsOK, IssuedIsOwn, Is
<1>6. QED
  BY <1>2, <1>3, <1>5 DEF IssuerInv

-----------------------------------------------------------------------------
(* Steps of the revocation handler, and the restart.                       *)

\* A step that changes the command's call and the file of revoked
\* commitments, and what the requests are about not at all.
LEMMA CommandStep ==
    ASSUME IssuerInv, UNCHANGED <<registry, rpcReg, notes, req, issued>>,
           revoked' \in Rows, revoking' \in Wallets \cup {NoWrite},
           NEW x \in CallRecord, write' = [write EXCEPT ![Cli] = x], Disown({Cli}),
           x.pc = "active" => x.op \in Operations /\ ~x.seen /\ revoking' # NoWrite
                              /\ x.op = SetRevRoot(Current)',
           x.pc \in {"active", "idle"},
           IsPrefix(Current, Current')
    PROVE  IssuerInv'
<1>1. /\ write' \in [Writers -> CallRecord] /\ write'[Cli] = x
      /\ \A r \in Requests : write'[r] = write[r]
  BY IssuerFacts, WritersAre
<1>2. held' \subseteq OnItsWay /\ \A h \in held' : \E g \in held : g.op = h.op
  BY IssuerFacts, DisownKeeps
<1>3. TypesOK'
  BY <1>1, <1>2, WritersAssumption DEF IssuerInv, TypesOK, Is
<1>4. RequestsOK'
  <2>1. ASSUME NEW r \in Requests PROVE OwnCall(r)' /\ OwnRequest(r)'
    BY <1>1 DEF IssuerInv, RequestsOK, OwnCall, OwnRequest, PastNote, NoteRoot, First, Is
  <2>2. ASSUME NEW h \in held', h.op.field = "note" PROVE PastNote(h.op.value)'
    BY <1>2, <2>2 DEF IssuerInv, RequestsOK, PastNote, NoteRoot, First
  <2>3. PastNote(registry.note)'
    BY DEF IssuerInv, RequestsOK, PastNote, NoteRoot, First
  <2>4. QED
    BY <2>1, <2>2, <2>3 DEF RequestsOK
<1>5. CommandOK'
  <2>1. SetRevRoot(Current)' = SetRevRoot(Current')
    BY DEF SetRevRoot
  <2>2. QED
    BY <1>1, <2>1 DEF CommandOK, Is
<1>6. ListsOK'
  <2>1. Current \in Commits /\ Current' \in Commits /\ registry.rev \in Commits
    <3>1. Current \in Commits /\ registry.rev \in Commits
      BY IssuerFacts, LoadedIs DEF Roots
    <3>2. LoadRevoked' \in Rows
      BY FixtureIsRow, AppendProperties DEF LoadRevoked, HasRow, Rows
    <3>3. Current' = RevWitness(LoadRevoked')
      BY DEF Current, RevWitness, First
    <3>4. QED
      BY <3>1, <3>2, <3>3, RevWitnessIs
  <2>2. ASSUME NEW v \in Commits, IsPrefix(v, Current) PROVE IsPrefix(v, Current')
    BY <2>1, <2>2, PrefixTransitive DEF Commits
  <2>3. ASSUME NEW h \in held', h.op.field = "rev"
        PROVE  IsPrefix(registry.rev, h.op.value) /\ IsPrefix(h.op.value, Current')
    <3>1. PICK g \in held : g.op = h.op
      BY <1>2
    <3>2. IsPrefix(registry.rev, h.op.value) /\ IsPrefix(h.op.value, Current)
      BY <2>3, <3>1 DEF IssuerInv, ListsOK
    <3>3. h.op.value \in Commits
      BY <1>2, <2>3 DEF OnItsWay, Operations
    <3>4. QED
      BY <2>2, <3>2, <3>3
  <2>4. IsPrefix(registry.rev, Current')
    BY <2>1, <2>2 DEF IssuerInv, ListsOK
  <2>5. QED
    BY <2>3, <2>4 DEF ListsOK
<1>7. IssuedIsOwn'
  BY DEF IssuerInv, IssuedIsOwn
<1>8. QED
  BY <1>3, <1>4, <1>5, <1>6, <1>7 DEF IssuerInv

LEMMA RevokeStep == ASSUME IssuerInv, NEW k \in Wallets, Revoke(k) PROVE IssuerInv'
<1>1. /\ revoked' = (IF HasRow(LoadRevoked, k) THEN revoked ELSE RowsWith(k))
      /\ revoking' = k /\ Start(Cli, SetRevRoot(RevWitness(RowsWith(k))))
      /\ UNCHANGED <<registry, rpcReg, notes, req, issued>>
  BY DEF Revoke, Run
<1>2. /\ revoked' \in Rows /\ RowsWith(k) \in Rows
      /\ LoadRevoked' = RowsWith(k) /\ IsPrefix(Current, Current')
  BY <1>1, RevokeGrows, IssuerFacts
<1>3. PICK op : op = SetRevRoot(RevWitness(RowsWith(k)))
  OBVIOUS
<1>4. op \in Operations
  BY <1>2, <1>3, RevWitnessIs DEF SetRevRoot, Operations
<1>5. op = SetRevRoot(Current)'
  BY <1>2, <1>3 DEF SetRevRoot, Current, RevWitness, First
<1> DEFINE x == [Resting EXCEPT !.pc = "active", !.op = op]
<1>6. x \in CallRecord /\ x.op = op /\ x.pc = "active" /\ ~x.seen
  BY <1>4 DEF Resting, CallRecord
<1>7. write' = [write EXCEPT ![Cli] = x] /\ Disown({Cli})
  BY <1>1, <1>3 DEF Start
<1> HIDE DEF x
<1>8. PICK y \in CallRecord : y = x
  BY <1>6
<1>9. y.op \in Operations /\ y.pc = "active" /\ ~y.seen /\ y.op = SetRevRoot(Current)'
  BY <1>4, <1>5, <1>6, <1>8
<1>10. revoking' \in Wallets \cup {NoWrite} /\ revoking' # NoWrite
  BY <1>1, BaselineAssumption
<1>11. write' = [write EXCEPT ![Cli] = y]
  BY <1>7, <1>8
<1>12. QED
  BY <1>1, <1>2, <1>7, <1>9, <1>10, <1>11, CommandStep

LEMMA RevokedStep == ASSUME IssuerInv, Revoked PROVE IssuerInv'
<1>1. /\ revoking' = NoWrite /\ write' = [write EXCEPT ![Cli] = Resting] /\ Disown({Cli})
      /\ UNCHANGED <<registry, rpcReg, notes, req, issued>>
  BY DEF Revoked, Return
<1>2. revoked' \in Rows /\ Current' = Current
  <2>1. CASE revoked' = MarkOnChain(LoadRevoked, revoking)
    BY <2>1, MarkKeeps, IssuerFacts
  <2>2. CASE UNCHANGED revoked
    BY <2>2, IssuerFacts DEF Current, RevWitness, First, LoadRevoked, HasRow
  <2>3. QED
    BY <2>1, <2>2 DEF Revoked
<1>3. IsPrefix(Current, Current')
  BY <1>2, LoadedIs, IssuerFacts, PrefixReflexive DEF Commits
<1>4. Resting \in CallRecord /\ Resting.pc = "idle"
  BY RestingIs
<1>5. PICK x \in CallRecord : x = Resting
  BY <1>4
<1>6. write' = [write EXCEPT ![Cli] = x] /\ x.pc = "idle"
  BY <1>1, <1>4, <1>5
<1>7. QED
  BY <1>1, <1>2, <1>3, <1>6, CommandStep

LEMMA CrashStep == ASSUME IssuerInv, Crash PROVE IssuerInv'
<1>1. /\ write' = [c \in Writers |-> Resting] /\ Disown(Writers) /\ revoking' = NoWrite
      /\ req' = [r \in Requests |-> IF req[r].pc = "idle" THEN Fresh ELSE Gone]
      /\ UNCHANGED <<registry, rpcReg, revoked, notes, issued>>
  BY DEF Crash, files
<1>2. held' \subseteq OnItsWay /\ \A h \in held' : \E g \in held : g.op = h.op
  BY <1>1, IssuerFacts, DisownKeeps
<1>3. /\ write' \in [Writers -> CallRecord]
      /\ \A c \in Writers : write'[c].pc = "idle"
  BY <1>1, RestingIs
<1>4. /\ req' \in [Requests -> Request]
      /\ \A r \in Requests : req'[r].pc \in {"idle", "answered"}
  BY <1>1, FreshIsRequest DEF Fresh
<1>5. TypesOK'
  BY <1>1, <1>2, <1>3, <1>4 DEF IssuerInv, TypesOK, Is
<1>6. RequestsOK'
  <2>1. ASSUME NEW r \in Requests PROVE OwnCall(r)' /\ OwnRequest(r)'
    BY <1>3, <1>4, WritersAre DEF OwnCall, OwnRequest, Is
  <2>2. ASSUME NEW h \in held', h.op.field = "note" PROVE PastNote(h.op.value)'
    BY <1>1, <1>2, <2>2 DEF IssuerInv, RequestsOK, PastNote, NoteRoot, First
  <2>3. PastNote(registry.note)'
    BY <1>1 DEF IssuerInv, RequestsOK, PastNote, NoteRoot, First
  <2>4. QED
    BY <2>1, <2>2, <2>3 DEF RequestsOK
<1>7. Current' = Current
  BY <1>1 DEF Current, RevWitness, First, LoadRevoked, HasRow
<1>8. CommandOK'
  BY <1>3, WritersAre DEF CommandOK, Is
<1>9. ListsOK'
  <2>1. ASSUME NEW h \in held', h.op.field = "rev"
        PROVE  IsPrefix(registry.rev, h.op.value) /\ IsPrefix(h.op.value, Current)
    BY <1>2, <2>1 DEF IssuerInv, ListsOK
  <2>2. QED
    BY <1>1, <1>7, <2>1 DEF IssuerInv, ListsOK
<1>10. IssuedIsOwn'
  BY <1>1 DEF IssuerInv, IssuedIsOwn
<1>11. QED
  BY <1>5, <1>6, <1>8, <1>9, <1>10 DEF IssuerInv

-----------------------------------------------------------------------------
(* The theorems.                                                           *)

LEMMA InitialList ==
    ASSUME IssuerInit
    PROVE  /\ LoadRevoked = <<Fixture>> /\ LoadRevoked \in Rows
           /\ Current = <<Baseline>> /\ <<Baseline>> \in Commits
<1>1. revoked = <<>>
  BY DEF IssuerInit
<1>2. ~HasRow(revoked, Baseline)
  BY <1>1 DEF HasRow
<1>3. LoadRevoked = <<Fixture>>
  BY <1>1, <1>2 DEF LoadRevoked
<1>4. LoadRevoked \in Rows /\ <<Baseline>> \in Commits
  BY <1>3, FixtureIsRow DEF Rows, Commits, Commitments
<1>5. Current \in Commits /\ Current = First(Keys(LoadRevoked))
  BY <1>4, RevWitnessIs DEF Current
<1>6. Keys(LoadRevoked) \in Commits /\ Len(Keys(LoadRevoked)) = 1
      /\ Keys(LoadRevoked)[1] = Baseline
  BY <1>3, <1>4, KeysAreCommits DEF Keys, Fixture
<1>7. Len(Current) = 1 /\ Current[1] = Baseline
  BY <1>5, <1>6, FirstIs, IssuerBounds DEF Commits
<1>8. Current = <<Baseline>>
  BY <1>4, <1>5, <1>7, SeqEqual DEF Commits
<1>9. QED
  BY <1>3, <1>4, <1>8

LEMMA IssuerInitially == IssuerInit => IssuerInv
<1> SUFFICES ASSUME IssuerInit PROVE IssuerInv
  OBVIOUS
<1>1. /\ held = {} /\ write = [c \in Writers |-> Resting]
      /\ registry = [root |-> NoWrite, rev |-> <<Baseline>>, note |-> <<>>] /\ rpcReg = registry
      /\ revoked = <<>> /\ notes = <<>> /\ req = [r \in Requests |-> Fresh]
      /\ revoking = NoWrite /\ issued = {}
  BY DEF IssuerInit, WritesInit
<1>2. Current = <<Baseline>> /\ <<Baseline>> \in Commits
  BY InitialList
<1>3. \A c \in Writers : write[c] \in CallRecord /\ write[c].pc = "idle"
  BY <1>1, RestingIs
<1>4. \A r \in Requests : req[r] \in Request /\ req[r].pc = "idle"
  BY <1>1, FreshIsRequest DEF Fresh
<1>5. TypesOK
  <2>1. registry \in Roots
    BY <1>1, <1>2 DEF Roots
  <2>2. revoked \in Rows /\ notes \in Seq(Requests)
    BY <1>1 DEF Rows
  <2>3. write \in [Writers -> CallRecord] /\ req \in [Requests -> Request]
    BY <1>1, <1>3, <1>4
  <2>4. QED
    BY <1>1, <1>3, <2>1, <2>2, <2>3 DEF TypesOK, Is
<1>6. PastNote(registry.note)
  <2>1. SubSeq(notes, 1, 0) = <<>> /\ 0 \in 0..Len(notes)
    BY <1>1, SubSeqEmpty
  <2>2. NoteRoot(<<>>) = <<>>
    BY SubSeqEmpty, IssuerBounds DEF NoteRoot, First
  <2>3. QED
    BY <1>1, <2>1, <2>2 DEF PastNote
<1>7. RequestsOK
  BY <1>1, <1>3, <1>4, <1>6, WritersAre DEF RequestsOK, OwnCall, OwnRequest, Is
<1>8. CommandOK
  BY <1>3, WritersAre DEF CommandOK, Is
<1>9. ListsOK
  BY <1>1, <1>2, PrefixReflexive DEF ListsOK, Commits
<1>10. QED
  BY <1>1, <1>5, <1>7, <1>8, <1>9 DEF IssuerInv, IssuedIsOwn

LEMMA StutterStep == ASSUME IssuerInv, UNCHANGED issuerVars PROVE IssuerInv'
<1>1. UNCHANGED <<held, write, registry, rpcReg, revoked, notes, req, revoking, issued>>
  BY DEF issuerVars, writeVars, files
<1>2. TypesOK'
  BY <1>1 DEF IssuerInv, TypesOK, Is
<1>3. RequestsOK'
  BY <1>1 DEF IssuerInv, RequestsOK, OwnCall, OwnRequest, PastNote, NoteRoot, First, Is
<1>4. Current' = Current
  BY <1>1 DEF Current, RevWitness, First, LoadRevoked, HasRow
<1>5. CommandOK' /\ ListsOK' /\ IssuedIsOwn'
  BY <1>1, <1>4 DEF IssuerInv, CommandOK, ListsOK, IssuedIsOwn, Is
<1>6. QED
  BY <1>2, <1>3, <1>5 DEF IssuerInv

LEMMA IssuerSteps == IssuerInv /\ [IssuerNext]_issuerVars => IssuerInv'
BY HandlerStep, ArriveStep, HandOverStep, CallEndsStep, RevokeStep, RevokedStep, StoreStep,
   LoseStep, RpcStep, CrashStep, StutterStep
DEF IssuerNext

\* Only Store changes the registry.
LEMMA RevRootStep ==
    ASSUME IssuerInv, [IssuerNext]_issuerVars PROVE IsPrefix(registry.rev, registry'.rev)
<1>1. CASE UNCHANGED registry
  BY <1>1, IssuerFacts, PrefixReflexive DEF Roots, Commits
<1>2. ASSUME NEW h \in held, Store(h) PROVE IsPrefix(registry.rev, registry'.rev)
  BY <1>2, StoreStep
<1>3. QED
  BY <1>1, <1>2
  DEF IssuerNext, Handler, ReadRoots, RootWritten, RereadRoots, ReadFails, Issue, Arrive, HandOver,
      CallEnds, Others, Revoke, Run, Revoked, Lose, RpcCatchesUp, Crash, issuerVars

\* The lists that the issuer's file, the write on its way and the registry hold
\* only ever grow into each other, and what a request works with is its own.
THEOREM IssuerInvariant == IssuerSpec => []IssuerInv
<1>1. IssuerInit => IssuerInv
  BY IssuerInitially
<1>2. IssuerInv /\ [IssuerNext]_issuerVars => IssuerInv'
  BY IssuerSteps
<1>3. QED
  BY <1>1, <1>2, PTL DEF IssuerSpec

\* A credential is issued over its own wallet's root, although every wallet
\* writes the one root, and a note it names is in the file; without one it is
\* issued when the note could not be saved (server.js 348-434).
THEOREM IssuedIsOwnHolds == IssuerSpec => []IssuedIsOwn
<1>1. IssuerInv => IssuedIsOwn
  BY DEF IssuerInv
<1>2. QED
  BY <1>1, IssuerInvariant, PTL

\* The note root on chain is the root of the note file at some length, also
\* after restarts and writes that landed late (noteMerkle.js 34-41).
THEOREM NoteRootIsOfFileHolds == IssuerSpec => []NoteRootIsOfFile
<1>1. IssuerInv => NoteRootIsOfFile
  BY DEF IssuerInv, RequestsOK, PastNote, NoteRootIsOfFile
<1>2. QED
  BY <1>1, IssuerInvariant, PTL

\* No write, however late, takes a revocation back (revoke.js 82-149).
THEOREM RevRootGrowsHolds == IssuerSpec => RevRootGrows
<1>1. IssuerInv /\ [IssuerNext]_issuerVars => [IsPrefix(registry.rev, registry'.rev)]_issuerVars
  BY RevRootStep
<1>2. QED
  BY <1>1, IssuerInvariant, PTL DEF IssuerSpec, RevRootGrows

-----------------------------------------------------------------------------
(* What is marked on chain is in the root: as long as the list fits into   *)
(* the tree.  A row that does not is marked although no root holds it      *)
(* (compute_revocation_root.js 26), so the bound is needed.                *)

LEMMA MarkedInitially == IssuerInit => MarkedInv
<1> SUFFICES ASSUME IssuerInit PROVE MarkedOK
  BY IssuerInitially DEF MarkedInv
<1>1. LoadRevoked = <<Fixture>> /\ registry.rev = <<Baseline>>
  BY InitialList DEF IssuerInit
<1>2. Len(LoadRevoked) <= LEAVES /\ DOMAIN LoadRevoked = {1}
  BY <1>1, IssuerBounds
<1>3. Baseline \in ToSet(registry.rev)
  BY <1>1 DEF ToSet
<1>4. QED
  BY <1>1, <1>2, <1>3 DEF MarkedOK, OnChainRowsAreInRoot, Fixture

\* With the list as it is, a root that grows keeps what is marked.
LEMMA MarkedStays ==
    ASSUME MarkedInv, [IssuerNext]_issuerVars, IssuerInv', revoked' = revoked
    PROVE  MarkedOK'
<1>1. LoadRevoked' = LoadRevoked
  BY DEF LoadRevoked, HasRow
<1>2. registry.rev \in Commits /\ registry'.rev \in Commits
  BY IssuerFacts DEF IssuerInv, TypesOK, MarkedInv, Roots
<1>3. ToSet(registry.rev) \subseteq ToSet(registry'.rev)
  BY <1>2, RevRootStep, PrefixElements DEF MarkedInv, Commits
<1>4. QED
  BY <1>1, <1>3 DEF MarkedInv, MarkedOK, OnChainRowsAreInRoot

\* A new row is not marked.
LEMMA MarkedRevoke ==
    ASSUME MaxRows <= LEAVES, MarkedInv, NEW k \in Wallets, Revoke(k) PROVE MarkedOK'
<1>1. /\ revoked' = (IF HasRow(LoadRevoked, k) THEN revoked ELSE RowsWith(k))
      /\ registry' = registry /\ Len(RowsWith(k)) <= MaxRows
  BY DEF Revoke, Run, Revocable
<1>2. RowsWith(k) \in Rows /\ LoadRevoked' = RowsWith(k) /\ LoadRevoked \in Rows
  BY <1>1, RevokeGrows, IssuerFacts, LoadedIs DEF MarkedInv
<1>3. Len(LoadRevoked') <= LEAVES
  <2>1. Len(RowsWith(k)) \in Nat
    BY <1>2 DEF Rows
  <2>2. QED
    BY <1>1, <1>2, <2>1, IssuerBounds
<1>4. ASSUME NEW i \in DOMAIN RowsWith(k), RowsWith(k)[i].onChain
      PROVE  RowsWith(k)[i].commitment \in ToSet(registry.rev)
  <2>1. CASE HasRow(LoadRevoked, k)
    BY <1>4, <2>1 DEF RowsWith, MarkedInv, MarkedOK, OnChainRowsAreInRoot
  <2>2. CASE ~HasRow(LoadRevoked, k)
    <3> DEFINE x == [commitment |-> k, onChain |-> FALSE]
               more == Append(LoadRevoked, x)
    <3>1. RowsWith(k) = more /\ x \in Row
      BY <2>2 DEF RowsWith, Row, Commitments
    <3>2. /\ Len(LoadRevoked) \in Nat /\ Len(more) = Len(LoadRevoked) + 1
          /\ DOMAIN LoadRevoked = 1..Len(LoadRevoked) /\ DOMAIN more = 1..Len(more)
          /\ \A j \in 1..Len(LoadRevoked) : more[j] = LoadRevoked[j]
          /\ more[Len(LoadRevoked) + 1] = x
      BY <1>2, <3>1, AppendProperties, LenProperties DEF Rows
    <3> HIDE DEF more
    <3>3. i \in 1..Len(LoadRevoked) \/ more[i].onChain = FALSE
      BY <3>1, <3>2
    <3>4. i \in DOMAIN LoadRevoked /\ LoadRevoked[i] = RowsWith(k)[i]
      BY <1>4, <3>1, <3>2, <3>3
    <3>5. QED
      BY <1>4, <3>4 DEF MarkedInv, MarkedOK, OnChainRowsAreInRoot
  <2>3. QED
    BY <2>1, <2>2
<1>5. QED
  BY <1>1, <1>2, <1>3, <1>4 DEF MarkedOK, OnChainRowsAreInRoot

\* A row is marked when the registry has the whole list.
LEMMA MarkedRevoked == ASSUME MarkedInv, Revoked PROVE MarkedOK'
<1>1. registry' = registry
  BY DEF Revoked
<1>2. CASE Is(Cli, "done") /\ revoked' = MarkOnChain(LoadRevoked, revoking)
  <2>1. /\ Len(LoadRevoked') = Len(LoadRevoked) /\ DOMAIN LoadRevoked' = DOMAIN LoadRevoked
        /\ \A i \in DOMAIN LoadRevoked :
              LoadRevoked'[i].commitment = LoadRevoked[i].commitment
    BY <1>2, MarkKeeps, IssuerFacts DEF MarkedInv
  <2>2. registry.rev = Current
    BY <1>2 DEF MarkedInv, IssuerInv, CommandOK
  <2>3. LoadRevoked \in Rows
    BY LoadedIs, IssuerFacts DEF MarkedInv
  <2>4. /\ Current = First(Keys(LoadRevoked))
        /\ Keys(LoadRevoked) \in Commits /\ Len(Keys(LoadRevoked)) = Len(LoadRevoked)
    BY <2>3, RevWitnessIs, KeysAreCommits DEF Current
  <2>5. /\ First(Keys(LoadRevoked)) \in Commits
        /\ Len(First(Keys(LoadRevoked))) = Len(LoadRevoked)
        /\ \A i \in 1..Len(LoadRevoked) :
              First(Keys(LoadRevoked))[i] = Keys(LoadRevoked)[i]
    <3>1. Len(LoadRevoked) <= LEAVES /\ Len(LoadRevoked) \in Nat /\ LEAVES \in Nat
      BY <2>3, IssuerBounds DEF Rows, MarkedInv, MarkedOK
    <3>2. QED
      BY <2>4, <3>1, FirstIs DEF Commits
  <2>6. ASSUME NEW i \in DOMAIN LoadRevoked
        PROVE  LoadRevoked[i].commitment \in ToSet(registry.rev)
    <3>1. i \in 1..Len(LoadRevoked) /\ Keys(LoadRevoked)[i] = LoadRevoked[i].commitment
      BY <2>3 DEF Rows, Keys
    <3>2. i \in DOMAIN registry.rev /\ registry.rev[i] = LoadRevoked[i].commitment
      BY <2>2, <2>4, <2>5, <3>1 DEF Commits
    <3>3. QED
      BY <3>2 DEF ToSet
  <2>7. QED
    BY <1>1, <2>1, <2>6 DEF MarkedInv, MarkedOK, OnChainRowsAreInRoot
<1>3. CASE UNCHANGED revoked
  <2>1. LoadRevoked' = LoadRevoked
    BY <1>3 DEF LoadRevoked, HasRow
  <2>2. QED
    BY <1>1, <2>1 DEF MarkedInv, MarkedOK, OnChainRowsAreInRoot
<1>4. QED
  BY <1>2, <1>3 DEF Revoked

LEMMA FileStep ==
    ASSUME IssuerNext
    PROVE  revoked' = revoked \/ Revoked \/ \E k \in Wallets : Revoke(k)
BY DEF IssuerNext, Handler, ReadRoots, RootWritten, RereadRoots, ReadFails, Issue, Arrive,
       Proceed, IssueWithNote, IssueWithoutNote, HandOver, CallEnds, Others, Store, Lose, RpcCatchesUp, Crash, files

LEMMA MarkedSteps ==
    ASSUME MaxRows <= LEAVES PROVE MarkedInv /\ [IssuerNext]_issuerVars => MarkedInv'
<1> SUFFICES ASSUME MarkedInv, [IssuerNext]_issuerVars PROVE MarkedInv'
  OBVIOUS
<1>1. IssuerInv'
  BY IssuerSteps DEF MarkedInv
<1>2. revoked' = revoked \/ Revoked \/ \E k \in Wallets : Revoke(k)
  BY FileStep DEF issuerVars, files
<1>3. MarkedOK'
  BY <1>1, <1>2, MarkedStays, MarkedRevoke, MarkedRevoked
<1>4. QED
  BY <1>1, <1>3 DEF MarkedInv

\* A row marked onChain is in the revocation root of the registry, however the
\* process stopped and the command ended, while the list fits into the tree
\* (revoke.js 82-149).
THEOREM OnChainRowsAreInRootHolds ==
    ASSUME MaxRows <= LEAVES PROVE IssuerSpec => []OnChainRowsAreInRoot
<1>1. IssuerInit => MarkedInv
  BY MarkedInitially
<1>2. MarkedInv /\ [IssuerNext]_issuerVars => MarkedInv'
  BY MarkedSteps
<1>3. MarkedInv => OnChainRowsAreInRoot
  BY DEF MarkedInv, MarkedOK
<1>4. QED
  BY <1>1, <1>2, <1>3, PTL DEF IssuerSpec
=============================================================================
