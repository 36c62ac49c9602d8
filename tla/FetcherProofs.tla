---------------------------- MODULE FetcherProofs ----------------------------
(***************************************************************************)
(* Proofs about the block fetcher, for every set of peers and tree of      *)
(* blocks, every limit, and any behaviour of the peers.                    *)
(***************************************************************************)
EXTENDS Fetcher, FiniteSetTheorems, TLAPS

\* An announcement of h; an honest peer's is true.
GoodFor(h, a) ==
    /\ a \in Announce
    /\ a.origin \in Honest => a.number = Number[h] /\ Verdict[h] # "badHeader"

\* What holds of the four entries of a hash: x in announced, f in fetching, d
\* in fetched, c in completing.
EntryOK(h, x, f, d, c) ==
    /\ x \in Seq(Announce) /\ \A i \in DOMAIN x : GoodFor(h, x[i])
    /\ d \in Seq(Announce) /\ \A i \in DOMAIN d : GoodFor(h, d[i]) /\ d[i].header
    /\ f # None => GoodFor(h, f)
    /\ c # None => GoodFor(h, c) /\ c.header
    /\ x # <<>> => f = None /\ d = <<>> /\ c = None
    /\ d # <<>> => f # None /\ c = None

AnnOK(a) ==
    /\ a = [announces |-> a.announces, announced |-> a.announced, fetching |-> a.fetching,
            fetched |-> a.fetched, completing |-> a.completing]
    /\ a.announced \in [Block -> Seq(Announce)]
    /\ a.fetching \in [Block -> Announce \union {None}]
    /\ a.fetched \in [Block -> Seq(Announce)]
    /\ a.completing \in [Block -> Announce \union {None}]
    /\ \A h \in Block : EntryOK(h, a.announced[h], a.fetching[h], a.fetched[h], a.completing[h])

-----------------------------------------------------------------------------
\* forgetHash leaves nothing about the hashes of S, and the rest as it was.
LEMMA ForgetFields ==
    ASSUME NEW S
    PROVE  LET a == forgetHash(S)
           IN  /\ a = [announces |-> a.announces, announced |-> a.announced,
                       fetching |-> a.fetching, fetched |-> a.fetched,
                       completing |-> a.completing]
               /\ a.announced = [h \in Block |-> IF h \in S THEN <<>> ELSE ann.announced[h]]
               /\ a.fetching = [h \in Block |-> IF h \in S THEN None ELSE ann.fetching[h]]
               /\ a.fetched = [h \in Block |-> IF h \in S THEN <<>> ELSE ann.fetched[h]]
               /\ a.completing = [h \in Block |-> IF h \in S THEN None ELSE ann.completing[h]]
BY DEF forgetHash, Without

LEMMA EmptyEntry == ASSUME NEW h PROVE EntryOK(h, <<>>, None, <<>>, None)
BY DEF EntryOK

LEMMA ForgetKeeps ==
    ASSUME AnnOK(ann), NEW S
    PROVE  /\ AnnOK(forgetHash(S))
           /\ Keys(forgetHash(S).announced) \subseteq Keys(ann.announced)
           /\ Keys(forgetHash(S).fetched) \subseteq Keys(ann.fetched)
<1>. DEFINE a == forgetHash(S)
<1>0. /\ a = [announces |-> a.announces, announced |-> a.announced,
              fetching |-> a.fetching, fetched |-> a.fetched, completing |-> a.completing]
      /\ a.announced = [h \in Block |-> IF h \in S THEN <<>> ELSE ann.announced[h]]
      /\ a.fetching = [h \in Block |-> IF h \in S THEN None ELSE ann.fetching[h]]
      /\ a.fetched = [h \in Block |-> IF h \in S THEN <<>> ELSE ann.fetched[h]]
      /\ a.completing = [h \in Block |-> IF h \in S THEN None ELSE ann.completing[h]]
  BY ForgetFields
<1>. HIDE DEF a
<1>1. /\ a.announced \in [Block -> Seq(Announce)]
      /\ a.fetching \in [Block -> Announce \union {None}]
      /\ a.fetched \in [Block -> Seq(Announce)]
      /\ a.completing \in [Block -> Announce \union {None}]
  <2>. DEFINE A == Announce
  <2>. HIDE DEF A
  <2>1. <<>> \in Seq(A)
    OBVIOUS
  <2>. QED  BY <1>0, <2>1 DEF AnnOK, A
<1>2. ASSUME NEW h \in Block
      PROVE  EntryOK(h, a.announced[h], a.fetching[h], a.fetched[h], a.completing[h])
  <2>1. CASE h \in S
    BY <1>0, <2>1, EmptyEntry
  <2>2. CASE h \notin S
    <3>1. /\ a.announced[h] = ann.announced[h] /\ a.fetching[h] = ann.fetching[h]
          /\ a.fetched[h] = ann.fetched[h] /\ a.completing[h] = ann.completing[h]
      BY <1>0, <2>2
    <3>. QED  BY <3>1 DEF AnnOK
  <2>. QED  BY <2>1, <2>2
<1>3. AnnOK(a)
  BY <1>0, <1>1, <1>2 DEF AnnOK
<1>4. Keys(a.announced) \subseteq Keys(ann.announced) /\ Keys(a.fetched) \subseteq Keys(ann.fetched)
  BY <1>0 DEF Keys
<1>. QED  BY <1>3, <1>4 DEF a

-----------------------------------------------------------------------------
\* The announcements and the timers.
TimerOK == timer \in [fetch : BOOLEAN, complete : BOOLEAN]

AInv == AnnOK(ann) /\ TimerOK /\ TimersRunning

LEMMA ForgetStep ==
    ASSUME AInv, NEW S, ann' = forgetHash(S), UNCHANGED timer
    PROVE  AInv'
<1>1. AnnOK(ann)
  BY DEF AInv
<1>2. AnnOK(forgetHash(S))
  BY <1>1, ForgetKeeps
<1>3. /\ Keys(forgetHash(S).announced) \subseteq Keys(ann.announced)
      /\ Keys(forgetHash(S).fetched) \subseteq Keys(ann.fetched)
  BY <1>1, ForgetKeeps
<1>4. AnnOK(ann')
  BY <1>2
<1>5. TimersRunning'
  BY <1>3 DEF AInv, TimersRunning
<1>6. TimerOK'
  BY DEF AInv, TimerOK
<1>. QED  BY <1>4, <1>5, <1>6 DEF AInv

\* What only touches other variables keeps the announcements in order.
LEMMA AnnStutter ==
    ASSUME AInv, UNCHANGED <<ann, timer>>
    PROVE  AInv'
BY DEF AInv, AnnOK, TimerOK, TimersRunning, Keys, EntryOK, GoodFor

\* Changing the four entries of one hash.
LEMMA OneEntry ==
    ASSUME AnnOK(ann), NEW h \in Block, NEW b, NEW x, NEW f, NEW d, NEW c, NEW cnt,
           EntryOK(h, x, f, d, c),
           f \in Announce \union {None}, c \in Announce \union {None},
           b = [announces  |-> cnt,
                announced  |-> [ann.announced EXCEPT ![h] = x],
                fetching   |-> [ann.fetching EXCEPT ![h] = f],
                fetched    |-> [ann.fetched EXCEPT ![h] = d],
                completing |-> [ann.completing EXCEPT ![h] = c]]
    PROVE  AnnOK(b)
<1>1. /\ b = [announces |-> b.announces, announced |-> b.announced, fetching |-> b.fetching,
              fetched |-> b.fetched, completing |-> b.completing]
      /\ b.announced = [ann.announced EXCEPT ![h] = x]
      /\ b.fetching = [ann.fetching EXCEPT ![h] = f]
      /\ b.fetched = [ann.fetched EXCEPT ![h] = d]
      /\ b.completing = [ann.completing EXCEPT ![h] = c]
  OBVIOUS
<1>2. x \in Seq(Announce) /\ d \in Seq(Announce)
  BY DEF EntryOK
<1>3. /\ b.announced \in [Block -> Seq(Announce)]
      /\ b.fetching \in [Block -> Announce \union {None}]
      /\ b.fetched \in [Block -> Seq(Announce)]
      /\ b.completing \in [Block -> Announce \union {None}]
  BY <1>1, <1>2 DEF AnnOK
<1>4. ASSUME NEW k \in Block
      PROVE  EntryOK(k, b.announced[k], b.fetching[k], b.fetched[k], b.completing[k])
  <2>1. CASE k = h
    BY <1>1, <2>1 DEF AnnOK
  <2>2. CASE k # h
    <3>1. /\ b.announced[k] = ann.announced[k] /\ b.fetching[k] = ann.fetching[k]
          /\ b.fetched[k] = ann.fetched[k] /\ b.completing[k] = ann.completing[k]
      BY <1>1, <2>2 DEF AnnOK
    <3>. QED  BY <3>1 DEF AnnOK
  <2>. QED  BY <2>1, <2>2
<1>. QED  BY <1>1, <1>3, <1>4 DEF AnnOK

\* Notify puts an announcement of h into announced, and starts the timer when
\* it is the first.
LEMMA NotifyKeeps ==
    ASSUME AInv, NEW p \in Peer, NEW h \in Block, NEW n \in Nat,
           p \in Honest => n = Number[h] /\ Verdict[h] # "badHeader",
           Notify(p, h, n)
    PROVE  AInv'
<1>1. CASE Refuses(p, h, n)
  BY <1>1, AnnStutter DEF Notify
<1>2. CASE ~ Refuses(p, h, n)
  <2>. DEFINE a == [origin |-> p, number |-> n, header |-> FALSE]
              x == ann.announced[h]
  <2>1. /\ ann' = [ann EXCEPT !.announces[p] = ann.announces[p] + 1,
                              !.announced[h] = Append(ann.announced[h], a)]
        /\ timer' = [timer EXCEPT
               !.fetch = timer.fetch \/ Cardinality(Keys(ann'.announced)) = 1]
    BY <1>2 DEF Notify
  <2>2. AnnOK(ann) /\ EntryOK(h, x, ann.fetching[h], ann.fetched[h], ann.completing[h])
    BY DEF AInv, AnnOK
  <2>3. ann.fetching[h] = None /\ ann.completing[h] = None /\ ann.fetched[h] = <<>>
    BY <1>2, <2>2 DEF Refuses, EntryOK
  <2>4. a \in Announce /\ GoodFor(h, a)
    BY DEF Announce, GoodFor
  <2>5. EntryOK(h, Append(x, a), None, <<>>, None)
    <3>. HIDE DEF a, x
    <3>1. x \in Seq(Announce) /\ \A i \in DOMAIN x : GoodFor(h, x[i])
      BY <2>2 DEF EntryOK
    <3>2. Append(x, a) \in Seq(Announce)
      BY <3>1, <2>4
    <3>3. \A i \in DOMAIN Append(x, a) : GoodFor(h, Append(x, a)[i])
      BY <3>1, <2>4
    <3>. QED  BY <3>2, <3>3 DEF EntryOK
  <2>6. ann' = [announces  |-> [ann.announces EXCEPT ![p] = ann.announces[p] + 1],
                announced  |-> [ann.announced EXCEPT ![h] = Append(x, a)],
                fetching   |-> [ann.fetching EXCEPT ![h] = None],
                fetched    |-> [ann.fetched EXCEPT ![h] = <<>>],
                completing |-> [ann.completing EXCEPT ![h] = None]]
    <3>1. /\ ann.fetching = [ann.fetching EXCEPT ![h] = None]
          /\ ann.fetched = [ann.fetched EXCEPT ![h] = <<>>]
          /\ ann.completing = [ann.completing EXCEPT ![h] = None]
      BY <2>2, <2>3 DEF AnnOK
    <3>2. ann = [announces |-> ann.announces, announced |-> ann.announced,
                 fetching |-> ann.fetching, fetched |-> ann.fetched,
                 completing |-> ann.completing]
      BY <2>2 DEF AnnOK
    <3>. HIDE DEF a, x
    <3>. QED  BY Zenon, <2>1, <3>1, <3>2 DEF x
  <2>7. AnnOK(ann')
    <3>. HIDE DEF a, x
    <3>. QED  BY Zenon, <2>2, <2>5, <2>6, OneEntry
  <2>8. TimersRunning' /\ TimerOK'
    <3>1. ann'.fetched = ann.fetched
      BY <2>2, <2>3, <2>6 DEF AnnOK
    <3>2. timer' \in [fetch : BOOLEAN, complete : BOOLEAN] /\ timer'.complete = timer.complete
      BY Zenon, <2>1 DEF AInv, TimerOK
    <3>3. timer'.fetch = (timer.fetch \/ Cardinality(Keys(ann'.announced)) = 1)
      BY <2>1 DEF AInv, TimerOK
    <3>4. CASE Keys(ann.announced) # {}
      BY <3>1, <3>2, <3>3, <3>4 DEF AInv, TimersRunning, TimerOK
    <3>5. CASE Keys(ann.announced) = {}
      <4>1. Keys(ann'.announced) \subseteq {h}
        BY <2>2, <2>6, <3>5 DEF Keys, AnnOK
      <4>2. Keys(ann'.announced) # {} => Keys(ann'.announced) = {h}
        BY <4>1
      <4>3. Cardinality({h}) = 1
        BY FS_Singleton
      <4>. QED  BY <3>1, <3>2, <3>3, <4>2, <4>3 DEF AInv, TimersRunning, TimerOK
    <3>. QED  BY <3>4, <3>5
  <2>. QED  BY <2>7, <2>8 DEF AInv
<1>. QED  BY <1>1, <1>2

\* FilterHeaders forgets the hash, or keeps its announcement with the header.
LEMMA HeadersKeep ==
    ASSUME AInv, NEW p, NEW h \in Block, FilterHeaders(p, h)
    PROVE  AInv'
<1>. DEFINE a == ann.fetching[h]
            w == WithHeader(a)
            d == ann.fetched[h]
<1>1. CASE UNCHANGED <<ann, timer>>
  BY <1>1, AnnStutter
<1>2. CASE ann' = forgetHash({h}) /\ UNCHANGED timer
  BY <1>2, ForgetStep
<1>0. ASSUME a # None, d = <<>>, ann.completing[h] = None
      PROVE  /\ AnnOK(ann)
             /\ w \in Announce /\ GoodFor(h, w) /\ w.header
             /\ w # None
             /\ ann.announced[h] = <<>>
             /\ ann = [announces |-> ann.announces, announced |-> ann.announced,
                       fetching |-> ann.fetching, fetched |-> ann.fetched,
                       completing |-> ann.completing]
             /\ ann.announced = [ann.announced EXCEPT ![h] = <<>>]
             /\ ann.fetched = [ann.fetched EXCEPT ![h] = <<>>]
             /\ ann.completing = [ann.completing EXCEPT ![h] = None]
  <2>1. AnnOK(ann) /\ EntryOK(h, ann.announced[h], a, d, ann.completing[h])
    BY DEF AInv, AnnOK
  <2>2. GoodFor(h, a)
    BY <1>0, <2>1 DEF EntryOK
  <2>. HIDE DEF a
  <2>3. w \in Announce /\ GoodFor(h, w) /\ w.header
    BY Zenon, <2>2 DEF GoodFor, WithHeader, Announce
  <2>4. w # None
    BY <2>3, FetcherAssumption
  <2>5. ann.announced[h] = <<>>
    BY <1>0, <2>1 DEF EntryOK
  <2>. QED  BY <1>0, <2>1, <2>3, <2>4, <2>5 DEF AnnOK
<1>3. CASE /\ a # None /\ d = <<>> /\ ann.completing[h] = None
           /\ ann' = [ann EXCEPT !.fetching[h] = w, !.completing[h] = w]
           /\ UNCHANGED timer
  <2>0. /\ AnnOK(ann)
        /\ w \in Announce /\ GoodFor(h, w) /\ w.header /\ w # None
        /\ ann = [announces |-> ann.announces, announced |-> ann.announced,
                  fetching |-> ann.fetching, fetched |-> ann.fetched,
                  completing |-> ann.completing]
        /\ ann.announced = [ann.announced EXCEPT ![h] = <<>>]
        /\ ann.fetched = [ann.fetched EXCEPT ![h] = <<>>]
    BY <1>0, <1>3
  <2>. HIDE DEF w, a, d
  <2>1. ann' = [announces  |-> ann.announces,
                announced  |-> [ann.announced EXCEPT ![h] = <<>>],
                fetching   |-> [ann.fetching EXCEPT ![h] = w],
                fetched    |-> [ann.fetched EXCEPT ![h] = <<>>],
                completing |-> [ann.completing EXCEPT ![h] = w]]
    BY Zenon, <1>3, <2>0
  <2>2. EntryOK(h, <<>>, w, <<>>, w)
    BY <2>0 DEF EntryOK
  <2>3. AnnOK(ann')
    BY <2>0, <2>1, <2>2, OneEntry
  <2>4. ann'.announced = ann.announced /\ ann'.fetched = ann.fetched
    BY <2>0, <2>1
  <2>. QED  BY <1>3, <2>3, <2>4 DEF AInv, TimersRunning, TimerOK
<1>4. CASE /\ a # None /\ d = <<>> /\ ann.completing[h] = None
           /\ ann' = [ann EXCEPT !.fetching[h] = w, !.fetched[h] = Append(d, w)]
           /\ timer' = [timer EXCEPT
                  !.complete = timer.complete \/ Cardinality(Keys(ann'.fetched)) = 1]
  <2>0. /\ AnnOK(ann)
        /\ w \in Announce /\ GoodFor(h, w) /\ w.header /\ w # None
        /\ ann = [announces |-> ann.announces, announced |-> ann.announced,
                  fetching |-> ann.fetching, fetched |-> ann.fetched,
                  completing |-> ann.completing]
        /\ ann.announced = [ann.announced EXCEPT ![h] = <<>>]
        /\ ann.completing = [ann.completing EXCEPT ![h] = None]
    BY <1>0, <1>4
  <2>. HIDE DEF w, a
  <2>1. Append(d, w) = <<w>> /\ <<w>> \in Seq(Announce) /\ <<w>> # <<>>
    BY <1>4, <2>0
  <2>. HIDE DEF d
  <2>2. ann' = [announces  |-> ann.announces,
                announced  |-> [ann.announced EXCEPT ![h] = <<>>],
                fetching   |-> [ann.fetching EXCEPT ![h] = w],
                fetched    |-> [ann.fetched EXCEPT ![h] = Append(d, w)],
                completing |-> [ann.completing EXCEPT ![h] = None]]
    BY Zenon, <1>4, <2>0
  <2>3. EntryOK(h, <<>>, w, Append(d, w), None)
    BY <2>0, <2>1 DEF EntryOK
  <2>4. AnnOK(ann')
    BY Zenon, <2>0, <2>2, <2>3, OneEntry
  <2>5. ann'.announced = ann.announced
    BY <2>0, <2>2
  <2>6. /\ timer' \in [fetch : BOOLEAN, complete : BOOLEAN] /\ timer'.fetch = timer.fetch
        /\ timer'.complete = (timer.complete \/ Cardinality(Keys(ann'.fetched)) = 1)
    BY Zenon, <1>4 DEF AInv, TimerOK
  <2>7. CASE Keys(ann.fetched) # {}
    BY <2>4, <2>5, <2>6, <2>7 DEF AInv, TimersRunning, TimerOK
  <2>8. CASE Keys(ann.fetched) = {}
    <3>1. Keys(ann'.fetched) \subseteq {h}
      BY <2>0, <2>2, <2>8 DEF Keys, AnnOK
    <3>2. Keys(ann'.fetched) # {} => Keys(ann'.fetched) = {h}
      BY <3>1
    <3>3. Cardinality({h}) = 1
      BY FS_Singleton
    <3>. QED  BY <2>4, <2>5, <2>6, <3>2, <3>3 DEF AInv, TimersRunning, TimerOK
  <2>. QED  BY <2>7, <2>8
<1>. QED  BY <1>1, <1>2, <1>3, <1>4 DEF FilterHeaders


\* fetchTimer moves announcements of the hashes it takes to fetching.
LEMMA FetchKeeps ==
    ASSUME AInv, NEW old \in SUBSET Block, FetchTimer(old)
    PROVE  AInv'
<1>0. AnnOK(ann) /\ old \subseteq Keys(ann.announced)
  BY DEF AInv, FetchTimer
<1>. DEFINE F(pick) == [h \in Block |-> IF h \in old THEN NowFetching(old, pick, h)
                                       ELSE ann.fetching[h]]
<1>1. PICK pick \in Picks(ann.announced, old) :
          ann' = [forgetHash(old) EXCEPT !.fetching = F(pick)]
  BY DEF FetchTimer
<1>2. ASSUME NEW h \in old
      PROVE  pick[h] \in Announce /\ GoodFor(h, pick[h])
  <2>1. PICK i \in DOMAIN ann.announced[h] : pick[h] = ann.announced[h][i]
    BY <1>1 DEF Picks, Range
  <2>2. EntryOK(h, ann.announced[h], ann.fetching[h], ann.fetched[h], ann.completing[h])
    BY <1>0 DEF AnnOK
  <2>. QED  BY <2>1, <2>2 DEF EntryOK, GoodFor
<1>. DEFINE b == forgetHash(old)
<1>3. /\ b = [announces |-> b.announces, announced |-> b.announced,
              fetching |-> b.fetching, fetched |-> b.fetched, completing |-> b.completing]
      /\ b.announced = [h \in Block |-> IF h \in old THEN <<>> ELSE ann.announced[h]]
      /\ b.fetching = [h \in Block |-> IF h \in old THEN None ELSE ann.fetching[h]]
      /\ b.fetched = [h \in Block |-> IF h \in old THEN <<>> ELSE ann.fetched[h]]
      /\ b.completing = [h \in Block |-> IF h \in old THEN None ELSE ann.completing[h]]
  BY ForgetFields
<1>4. AnnOK(b) /\ Keys(b.fetched) \subseteq Keys(ann.fetched)
  BY <1>0, ForgetKeeps
<1>5. ann' = [announces |-> b.announces, announced |-> b.announced,
              fetching |-> F(pick), fetched |-> b.fetched, completing |-> b.completing]
  <2>. HIDE DEF b, F
  <2>1. ann' = [b EXCEPT !.fetching = F(pick)]
    BY <1>1 DEF b
  <2>. QED  BY <1>3, <2>1
<1>. HIDE DEF b
<1>6. F(pick) \in [Block -> Announce \union {None}]
  BY <1>0, <1>2 DEF AnnOK, NowFetching
<1>7. ASSUME NEW h \in Block
      PROVE  EntryOK(h, b.announced[h], F(pick)[h], b.fetched[h], b.completing[h])
  <2>1. CASE h \in old
    <3>1. F(pick)[h] # None => GoodFor(h, F(pick)[h])
      BY <1>2, <2>1 DEF NowFetching
    <3>2. b.announced[h] = <<>> /\ b.fetched[h] = <<>> /\ b.completing[h] = None
      BY <1>3, <2>1
    <3>. HIDE DEF F
    <3>. QED  BY <3>1, <3>2 DEF EntryOK
  <2>2. CASE h \notin old
    <3>1. F(pick)[h] = b.fetching[h]
      BY <1>3, <2>2
    <3>. HIDE DEF F
    <3>. QED  BY <1>4, <3>1 DEF AnnOK
  <2>. QED  BY <2>1, <2>2
<1>8. AnnOK(ann')
  <2>. HIDE DEF F
  <2>. QED  BY <1>4, <1>5, <1>6, <1>7 DEF AnnOK
<1>9. TimersRunning' /\ TimerOK'
  <2>1. ann'.fetched = b.fetched
    BY <1>5
  <2>2. timer' = [timer EXCEPT !.fetch = (Keys(ann'.announced) # {})]
    BY DEF FetchTimer, reschedule
  <2>3. /\ timer' \in [fetch : BOOLEAN, complete : BOOLEAN]
        /\ timer'.fetch = (Keys(ann'.announced) # {})
        /\ timer'.complete = timer.complete
    BY Zenon, <2>2 DEF AInv, TimerOK
  <2>. QED  BY <1>4, <2>1, <2>3 DEF AInv, TimersRunning, TimerOK
<1>. QED  BY <1>8, <1>9 DEF AInv

\* completeTimer moves everything fetched to completing.
LEMMA CompleteKeeps ==
    ASSUME AInv, CompleteTimer
    PROVE  AInv'
<1>. DEFINE S == Keys(ann.fetched)
            F(pick) == [h \in Block |-> IF h \in S THEN NowFetching(S, pick, h)
                                       ELSE ann.completing[h]]
<1>0. AnnOK(ann) /\ S \subseteq Block
  BY DEF AInv, Keys
<1>1. PICK pick \in Picks(ann.fetched, S) :
          ann' = [forgetHash(S) EXCEPT !.completing = F(pick)]
  BY DEF CompleteTimer
<1>t. timer' = [timer EXCEPT !.complete = (Keys(ann'.fetched) # {})]
  BY DEF CompleteTimer, reschedule
<1>. HIDE DEF S
<1>2. ASSUME NEW h \in S
      PROVE  pick[h] \in Announce /\ GoodFor(h, pick[h]) /\ pick[h].header
  <2>1. PICK i \in DOMAIN ann.fetched[h] : pick[h] = ann.fetched[h][i]
    BY <1>1 DEF Picks, Range
  <2>2. EntryOK(h, ann.announced[h], ann.fetching[h], ann.fetched[h], ann.completing[h])
    BY <1>0 DEF AnnOK
  <2>. QED  BY <2>1, <2>2 DEF EntryOK, GoodFor
<1>. DEFINE b == forgetHash(S)
<1>3. /\ b = [announces |-> b.announces, announced |-> b.announced,
              fetching |-> b.fetching, fetched |-> b.fetched, completing |-> b.completing]
      /\ b.announced = [h \in Block |-> IF h \in S THEN <<>> ELSE ann.announced[h]]
      /\ b.fetching = [h \in Block |-> IF h \in S THEN None ELSE ann.fetching[h]]
      /\ b.fetched = [h \in Block |-> IF h \in S THEN <<>> ELSE ann.fetched[h]]
      /\ b.completing = [h \in Block |-> IF h \in S THEN None ELSE ann.completing[h]]
  BY ForgetFields
<1>4. AnnOK(b) /\ Keys(b.announced) \subseteq Keys(ann.announced)
  BY <1>0, ForgetKeeps
<1>5. ann' = [announces |-> b.announces, announced |-> b.announced,
              fetching |-> b.fetching, fetched |-> b.fetched, completing |-> F(pick)]
  <2>. HIDE DEF b, F
  <2>1. ann' = [b EXCEPT !.completing = F(pick)]
    BY <1>1 DEF b
  <2>. QED  BY <1>3, <2>1
<1>. HIDE DEF b
<1>6. F(pick) \in [Block -> Announce \union {None}]
  BY <1>0, <1>2 DEF AnnOK, NowFetching
<1>7. ASSUME NEW h \in Block
      PROVE  EntryOK(h, b.announced[h], b.fetching[h], b.fetched[h], F(pick)[h])
  <2>1. CASE h \in S
    <3>1. F(pick)[h] # None => GoodFor(h, F(pick)[h]) /\ F(pick)[h].header
      BY <1>2, <2>1 DEF NowFetching
    <3>2. b.announced[h] = <<>> /\ b.fetched[h] = <<>> /\ b.fetching[h] = None
      BY <1>3, <2>1
    <3>. HIDE DEF F
    <3>. QED  BY <3>1, <3>2 DEF EntryOK
  <2>2. CASE h \notin S
    <3>1. F(pick)[h] = b.completing[h]
      BY <1>3, <2>2
    <3>. HIDE DEF F
    <3>. QED  BY <1>4, <3>1 DEF AnnOK
  <2>. QED  BY <2>1, <2>2
<1>8. AnnOK(ann')
  <2>. HIDE DEF F
  <2>. QED  BY <1>4, <1>5, <1>6, <1>7 DEF AnnOK
<1>9. TimersRunning' /\ TimerOK'
  <2>1. ann'.announced = b.announced
    BY <1>5
  <2>2. /\ timer' \in [fetch : BOOLEAN, complete : BOOLEAN]
        /\ timer'.complete = (Keys(ann'.fetched) # {})
        /\ timer'.fetch = timer.fetch
    BY Zenon, <1>t DEF AInv, TimerOK
  <2>. QED  BY <1>4, <2>1, <2>2 DEF AInv, TimersRunning, TimerOK
<1>. QED  BY <1>8, <1>9 DEF AInv


-----------------------------------------------------------------------------
\* The queue, the import goroutines, and the peers dropped.
QueueType ==
    /\ queue \subseteq Op
    /\ queues \in [Peer -> 0..BlockLimit]
    /\ queued \in [Block -> Peer \union {None}]
    /\ imports \subseteq [op : Op, done : BOOLEAN]
    /\ blocks \subseteq Block

GoodOp(op) == op.origin \in Honest => Verdict[op.hash] # "badHeader"

OpsGood == (\A op \in queue : GoodOp(op)) /\ (\A i \in imports : GoodOp(i.op))

QInv == QueueType /\ QueuesCount /\ QueuedTracked /\ OpsGood /\ HonestKept

\* The blocks counted for a peer are finitely many.
LEMMA CountFinite ==
    ASSUME NEW S \in SUBSET Block
    PROVE  IsFiniteSet(S) /\ Cardinality(S) \in Nat
<1>1. IsFiniteSet(S)
  BY FetcherAssumption, FS_Subset
<1>. QED  BY <1>1, FS_CardinalityType

\* enqueue counts the block it queues for its peer, within the limit.
LEMMA EnqueueCounts ==
    ASSUME QueueType, QueuesCount, NEW p \in Peer, NEW h \in Block, queued[h] = None,
           ~ Exceeded(p),
           queued' = [queued EXCEPT ![h] = p], queues' = [queues EXCEPT ![p] = queues[p] + 1]
    PROVE  QueuesCount' /\ queues' \in [Peer -> 0..BlockLimit]
<1>1. queues[p] \in 0..BlockLimit /\ queues[p] + 1 \in 0..BlockLimit
  BY FetcherAssumption DEF QueueType, Exceeded
<1>2. queues' \in [Peer -> 0..BlockLimit]
  BY <1>1 DEF QueueType
<1>3. ASSUME NEW r \in Peer
      PROVE  queues'[r] = Cardinality({k \in Block : queued'[k] = r})
  <2>. DEFINE old == {k \in Block : queued[k] = r}
              new == {k \in Block : queued'[k] = r}
  <2>0. old \in SUBSET Block /\ Cardinality(old) = queues[r]
    BY DEF QueuesCount
  <2>1. IsFiniteSet(old) /\ Cardinality(old) = queues[r]
    <3>. HIDE DEF old
    <3>. QED  BY <2>0, CountFinite
  <2>2. CASE r = p
    <3>1. new = old \union {h} /\ h \notin old
      BY <2>2, FetcherAssumption DEF QueueType
    <3>. HIDE DEF old, new
    <3>2. Cardinality(new) = Cardinality(old) + 1
      BY Zenon, <2>1, <3>1, FS_AddElement
    <3>. QED  BY <2>1, <2>2, <3>2 DEF QueueType, new
  <2>3. CASE r # p
    <3>1. new = old
      BY <2>3, FetcherAssumption DEF QueueType
    <3>. QED  BY Zenon, <2>1, <2>3, <3>1 DEF QueueType
  <2>. QED  BY <2>2, <2>3
<1>. QED  BY <1>2, <1>3 DEF QueuesCount

\* forgetBlock gives the slot of the block back, never below zero.
LEMMA ForgetBlockCounts ==
    ASSUME QueueType, QueuesCount, NEW h \in Block, forgetBlock(h)
    PROVE  QueuesCount' /\ queues' \in [Peer -> 0..BlockLimit]
<1>1. CASE queued[h] = None
  <2>1. queued' = queued /\ queues' = queues
    BY <1>1 DEF forgetBlock, QueueType
  <2>. QED  BY <2>1 DEF QueuesCount, QueueType
<1>2. CASE queued[h] # None
  <2>. DEFINE p == queued[h]
  <2>1. p \in Peer /\ queues' = [queues EXCEPT ![p] = queues[p] - 1]
        /\ queued' = [queued EXCEPT ![h] = None]
    BY <1>2 DEF forgetBlock, QueueType
  <2>2. ASSUME NEW r \in Peer
        PROVE  /\ queues'[r] = Cardinality({k \in Block : queued'[k] = r})
               /\ queues'[r] \in 0..BlockLimit
    <3>. DEFINE old == {k \in Block : queued[k] = r}
                new == {k \in Block : queued'[k] = r}
    <3>0. old \in SUBSET Block /\ Cardinality(old) = queues[r]
      BY DEF QueuesCount
    <3>1. IsFiniteSet(old) /\ Cardinality(old) = queues[r] /\ queues[r] \in 0..BlockLimit
      <4>. HIDE DEF old
      <4>. QED  BY <3>0, CountFinite DEF QueueType
    <3>2. CASE r = p
      <4>1. new = old \ {h} /\ h \in old
        BY <2>1, <3>2, FetcherAssumption DEF QueueType
      <4>. HIDE DEF old, new
      <4>2. Cardinality(new) = Cardinality(old) - 1 /\ IsFiniteSet(new)
        BY <3>1, <4>1, FS_RemoveElement
      <4>3. Cardinality(new) \in Nat
        BY <4>2, FS_CardinalityType
      <4>. QED  BY <2>1, <3>1, <3>2, <4>2, <4>3, FetcherAssumption DEF QueueType, new
    <3>3. CASE r # p
      <4>1. new = old
        BY <2>1, <3>3, FetcherAssumption DEF QueueType
      <4>. QED  BY Zenon, <2>1, <3>1, <3>3, <4>1 DEF QueueType
    <3>. QED  BY <3>2, <3>3
  <2>3. queues' \in [Peer -> 0..BlockLimit]
    BY Zenon, <2>1, <2>2 DEF QueueType
  <2>. QED  BY <2>2, <2>3 DEF QueuesCount
<1>. QED  BY <1>1, <1>2


\* enqueue keeps the queue in order.
LEMMA EnqueueKeeps ==
    ASSUME QInv, NEW p \in Peer, NEW h \in Block,
           p \in Honest => Verdict[h] # "badHeader",
           enqueue(p, h), UNCHANGED <<imports, dropped>>, blocks' \subseteq blocks
    PROVE  QInv'
<1>1. CASE UNCHANGED queueVars
  BY <1>1 DEF QInv, QueueType, QueuesCount, QueuedTracked, OpsGood, GoodOp, HonestKept, queueVars
<1>2. CASE /\ ~ Exceeded(p) /\ queued[h] = None
           /\ queue' = queue \union {[origin |-> p, hash |-> h]}
           /\ queued' = [queued EXCEPT ![h] = p]
           /\ queues' = [queues EXCEPT ![p] = queues[p] + 1]
  <2>. DEFINE new == [origin |-> p, hash |-> h]
  <2>0. new \in Op /\ new.origin = p /\ new.hash = h /\ p # None
    BY FetcherAssumption DEF Op
  <2>1. QueuesCount' /\ queues' \in [Peer -> 0..BlockLimit]
    BY Zenon, <1>2, EnqueueCounts DEF QInv
  <2>2. QueueType'
    BY <1>2, <2>0, <2>1 DEF QInv, QueueType
  <2>3. /\ \A op \in queue : op.hash # h
        /\ \A i \in imports : i.op.hash # h
    <3>1. \A op \in queue : op \in Op /\ op.origin \in Peer /\ queued[op.hash] = op.origin
      BY DEF QInv, QueueType, QueuedTracked, Op
    <3>2. \A i \in imports : i.op \in Op /\ i.op.origin \in Peer /\ queued[i.op.hash] = i.op.origin
      BY DEF QInv, QueueType, QueuedTracked, Op
    <3>. QED  BY <1>2, <3>1, <3>2, FetcherAssumption
  <2>4. \A k \in Block : k # h => queued'[k] = queued[k]
    BY <1>2 DEF QInv, QueueType
  <2>5. queued'[h] = p
    BY <1>2 DEF QInv, QueueType
  <2>6. ASSUME NEW k \in Block, queued'[k] # None
        PROVE  \/ [origin |-> queued'[k], hash |-> k] \in queue'
               \/ \E i \in imports' : i.op = [origin |-> queued'[k], hash |-> k]
    <3>1. CASE k = h
      BY <1>2, <2>5, <3>1
    <3>2. CASE k # h
      BY <1>2, <2>4, <2>6, <3>2 DEF QInv, QueuedTracked
    <3>. QED  BY <3>1, <3>2
  <2>7. \A op \in queue : op.hash \in Block
    BY DEF QInv, QueueType, Op
  <2>8. \A i \in imports : i.op.hash \in Block
    BY DEF QInv, QueueType, Op
  <2>. HIDE DEF new
  <2>9. \A op \in queue' : queued'[op.hash] = op.origin
    BY <1>2, <2>0, <2>3, <2>4, <2>5, <2>7 DEF QInv, QueuedTracked, new
  <2>10. \A i \in imports' : queued'[i.op.hash] = i.op.origin /\ i.op \notin queue'
    BY SMTT(30), <1>2, <2>0, <2>3, <2>4, <2>8 DEF QInv, QueuedTracked, new
  <2>11. QueuedTracked'
    BY <2>6, <2>9, <2>10 DEF QInv, QueuedTracked
  <2>12. GoodOp(new)
    BY <2>0 DEF GoodOp
  <2>13. OpsGood'
    BY <1>2, <2>12 DEF QInv, OpsGood, GoodOp, new
  <2>. QED  BY <2>1, <2>2, <2>11, <2>13 DEF QInv, HonestKept
<1>. QED  BY <1>1, <1>2 DEF enqueue, queueVars

\* An operation leaves the queue for good: its block is forgotten.
LEMMA DiscardKeeps ==
    ASSUME QInv, NEW op \in queue, queue' = queue \ {op}, forgetBlock(op.hash),
           UNCHANGED <<imports, dropped, blocks>>
    PROVE  QInv'
<1>. DEFINE h == op.hash
<1>0. op \in Op /\ h \in Block /\ op.origin \in Peer /\ queued[h] = op.origin
      /\ op = [origin |-> op.origin, hash |-> h]
  BY DEF QInv, QueueType, QueuedTracked, Op
<1>1. QueuesCount' /\ queues' \in [Peer -> 0..BlockLimit]
  BY <1>0, ForgetBlockCounts DEF QInv
<1>2. queued' = [queued EXCEPT ![h] = None]
  BY DEF forgetBlock
<1>3. QueueType'
  BY Zenon, <1>1, <1>2 DEF QInv, QueueType
<1>4. /\ \A other \in queue' : other.hash # h /\ other.hash \in Block /\ other \in queue
      /\ \A i \in imports : i.op.hash # h /\ i.op.hash \in Block
  <2>1. \A other \in queue : /\ other = [origin |-> other.origin, hash |-> other.hash]
                             /\ other.hash \in Block
                             /\ queued[other.hash] = other.origin
    BY DEF QInv, QueueType, QueuedTracked, Op
  <2>2. \A i \in imports : /\ i.op = [origin |-> i.op.origin, hash |-> i.op.hash]
                           /\ i.op.hash \in Block
                           /\ queued[i.op.hash] = i.op.origin
                           /\ i.op \notin queue
    BY DEF QInv, QueueType, QueuedTracked, Op
  <2>3. ASSUME NEW other \in queue' PROVE other.hash # h /\ other.hash \in Block /\ other \in queue
    <3>1. other \in queue /\ other # op
      OBVIOUS
    <3>2. other.hash = h => other = op
      BY <1>0, <2>1, <3>1
    <3>. QED  BY <2>1, <3>1, <3>2
  <2>4. ASSUME NEW i \in imports PROVE i.op.hash # h /\ i.op.hash \in Block
    <3>1. i.op.hash = h => i.op = op
      BY Zenon, <1>0, <2>2
    <3>. QED  BY Zenon, <2>2, <3>1
  <2>. QED  BY <2>3, <2>4
<1>5. \A k \in Block : queued'[k] = IF k = h THEN None ELSE queued[k]
  BY <1>2 DEF QInv, QueueType
<1>. HIDE DEF h
<1>6. ASSUME NEW k \in Block, queued'[k] # None
      PROVE  \/ [origin |-> queued'[k], hash |-> k] \in queue'
             \/ \E i \in imports' : i.op = [origin |-> queued'[k], hash |-> k]
  <2>1. k # h /\ queued'[k] = queued[k] /\ queued[k] # None
    BY <1>5, <1>6
  <2>2. [origin |-> queued[k], hash |-> k] # op
    BY <1>0, <2>1
  <2>. QED  BY <2>1, <2>2 DEF QInv, QueuedTracked
<1>7. QueuedTracked'
  BY <1>4, <1>5, <1>6 DEF QInv, QueuedTracked
<1>8. OpsGood'
  BY DEF QInv, OpsGood, GoodOp
<1>. QED  BY <1>1, <1>3, <1>7, <1>8 DEF QInv, HonestKept

\* An operation moves from the queue to an import goroutine.
LEMMA InsertKeeps ==
    ASSUME QInv, NEW op \in queue, queue' = queue \ {op},
           imports' = imports \union {[op |-> op, done |-> FALSE]},
           UNCHANGED <<queues, queued, dropped, blocks>>
    PROVE  QInv'
<1>. DEFINE new == [op |-> op, done |-> FALSE]
<1>0. op \in Op /\ new \in [op : Op, done : BOOLEAN] /\ new.op = op
  BY DEF QInv, QueueType
<1>1. QueueType' /\ QueuesCount'
  BY Zenon, <1>0 DEF QInv, QueueType, QueuesCount
<1>2. \A i \in imports : i.op.hash # op.hash
  <2>1. op = [origin |-> op.origin, hash |-> op.hash] /\ queued[op.hash] = op.origin
    BY <1>0 DEF QInv, QueuedTracked, Op
  <2>2. \A i \in imports : /\ i.op = [origin |-> i.op.origin, hash |-> i.op.hash]
                           /\ queued[i.op.hash] = i.op.origin
                           /\ i.op \notin queue
    BY DEF QInv, QueueType, QueuedTracked, Op
  <2>. QED  BY Zenon, <2>1, <2>2
<1>. HIDE DEF new
<1>3. ASSUME NEW k \in Block, queued'[k] # None
      PROVE  \/ [origin |-> queued'[k], hash |-> k] \in queue'
             \/ \E i \in imports' : i.op = [origin |-> queued'[k], hash |-> k]
  <2>1. CASE [origin |-> queued[k], hash |-> k] = op
    BY Zenon, <1>0, <2>1 DEF new
  <2>2. CASE [origin |-> queued[k], hash |-> k] # op
    BY <1>3, <2>2 DEF QInv, QueuedTracked
  <2>. QED  BY <2>1, <2>2
<1>4. \A x \in queue' : queued'[x.hash] = x.origin
  BY DEF QInv, QueuedTracked
<1>5. \A i \in imports' : queued'[i.op.hash] = i.op.origin /\ i.op \notin queue'
  BY <1>0 DEF QInv, QueuedTracked, new
<1>6. \A i, j \in imports' : i.op.hash = j.op.hash => i = j
  BY Zenon, <1>0, <1>2 DEF QInv, QueuedTracked, new
<1>7. QueuedTracked'
  BY <1>3, <1>4, <1>5, <1>6 DEF QueuedTracked
<1>8. OpsGood'
  BY <1>0 DEF QInv, OpsGood, GoodOp, new
<1>. QED  BY <1>1, <1>7, <1>8 DEF QInv, HonestKept


\* The import goroutine drops a peer for a bad header only, so no honest one.
LEMMA ImportKeeps ==
    ASSUME QInv, NEW i \in imports, InsertBlock(i)
    PROVE  QInv'
<1>. DEFINE done == [i EXCEPT !.done = TRUE]
<1>0. /\ i \in [op : Op, done : BOOLEAN] /\ done \in [op : Op, done : BOOLEAN]
      /\ done.op = i.op
      /\ imports' = (imports \ {i}) \union {done}
      /\ UNCHANGED <<queue, queues, queued, blocks>>
  BY Zenon DEF QInv, QueueType, InsertBlock, queueVars
<1>. HIDE DEF done
<1>1. QueueType' /\ QueuesCount'
  BY <1>0 DEF QInv, QueueType, QueuesCount
<1>2. ASSUME NEW k \in Block, queued'[k] # None
      PROVE  \/ [origin |-> queued'[k], hash |-> k] \in queue'
             \/ \E j \in imports' : j.op = [origin |-> queued'[k], hash |-> k]
  <2>1. \/ [origin |-> queued[k], hash |-> k] \in queue
        \/ \E j \in imports : j.op = [origin |-> queued[k], hash |-> k]
    BY <1>0, <1>2 DEF QInv, QueuedTracked
  <2>2. CASE [origin |-> queued[k], hash |-> k] \in queue
    BY <1>0, <2>2
  <2>3. ASSUME NEW j \in imports, j.op = [origin |-> queued[k], hash |-> k]
        PROVE  \E l \in imports' : l.op = [origin |-> queued'[k], hash |-> k]
    <3>1. CASE j = i
      BY <1>0, <2>3, <3>1
    <3>2. CASE j # i
      BY <1>0, <2>3, <3>2
    <3>. QED  BY <3>1, <3>2
  <2>. QED  BY <2>1, <2>2, <2>3
<1>3. \A op \in queue' : queued'[op.hash] = op.origin
  BY <1>0 DEF QInv, QueuedTracked
<1>4. \A j \in imports' : queued'[j.op.hash] = j.op.origin /\ j.op \notin queue'
  BY <1>0 DEF QInv, QueuedTracked
<1>5. \A j, l \in imports' : j.op.hash = l.op.hash => j = l
  BY <1>0 DEF QInv, QueuedTracked
<1>6. QueuedTracked'
  BY <1>2, <1>3, <1>4, <1>5 DEF QueuedTracked
<1>7. OpsGood'
  BY <1>0 DEF QInv, OpsGood, GoodOp
<1>8. HonestKept'
  <2>1. dropped' = dropped \/ (Drops(i.op) /\ dropped' = dropped \union {i.op.origin})
    BY DEF InsertBlock
  <2>2. GoodOp(i.op)
    BY DEF QInv, OpsGood
  <2>. QED  BY <2>1, <2>2 DEF QInv, HonestKept, Drops, GoodOp
<1>. QED  BY <1>1, <1>6, <1>7, <1>8 DEF QInv

\* When an import has ended its block is forgotten.
LEMMA DoneKeeps ==
    ASSUME QInv, NEW i \in imports, imports' = imports \ {i}, forgetBlock(i.op.hash),
           UNCHANGED <<queue, dropped, blocks>>
    PROVE  QInv'
<1>. DEFINE h == i.op.hash
<1>0. i.op \in Op /\ h \in Block /\ i.op.origin \in Peer /\ queued[h] = i.op.origin
      /\ i.op = [origin |-> i.op.origin, hash |-> h] /\ i.op \notin queue
  BY DEF QInv, QueueType, QueuedTracked, Op
<1>1. QueuesCount' /\ queues' \in [Peer -> 0..BlockLimit]
  BY <1>0, ForgetBlockCounts DEF QInv
<1>2. queued' = [queued EXCEPT ![h] = None]
  BY DEF forgetBlock
<1>3. QueueType'
  BY Zenon, <1>1, <1>2 DEF QInv, QueueType
<1>4. \A k \in Block : queued'[k] = IF k = h THEN None ELSE queued[k]
  BY <1>2 DEF QInv, QueueType
<1>5. ASSUME NEW op \in queue PROVE op.hash # h /\ op.hash \in Block
  <2>1. op = [origin |-> op.origin, hash |-> op.hash] /\ queued[op.hash] = op.origin
        /\ op.hash \in Block
    BY DEF QInv, QueueType, QueuedTracked, Op
  <2>2. op.hash = h => op = i.op
    BY <1>0, <2>1
  <2>. QED  BY <1>0, <2>1, <2>2
<1>6. ASSUME NEW j \in imports' PROVE j.op.hash # h /\ j.op.hash \in Block /\ j \in imports
  <2>1. j \in imports /\ j # i /\ j.op \in Op
    BY DEF QInv, QueueType
  <2>2. j.op.hash # h
    BY SMTT(30), <2>1 DEF QInv, QueuedTracked
  <2>. QED  BY <2>1, <2>2 DEF Op
<1>7. ASSUME NEW k \in Block, queued'[k] # None
      PROVE  \/ [origin |-> queued'[k], hash |-> k] \in queue'
             \/ \E j \in imports' : j.op = [origin |-> queued'[k], hash |-> k]
  <2>1. k # h /\ queued'[k] = queued[k] /\ queued[k] # None
    BY <1>4, <1>7
  <2>2. [origin |-> queued[k], hash |-> k].hash = k
    BY SMTT(30)
  <2>3. ASSUME NEW j \in imports, j.op = [origin |-> queued[k], hash |-> k]
        PROVE  j \in imports'
    BY <2>1, <2>2, <2>3
  <2>. QED  BY <2>1, <2>3 DEF QInv, QueuedTracked
<1>. HIDE DEF h
<1>8. \A op \in queue' : queued'[op.hash] = op.origin
  BY <1>4, <1>5 DEF QInv, QueuedTracked
<1>9. \A j \in imports' : queued'[j.op.hash] = j.op.origin /\ j.op \notin queue'
  BY SMTT(30), <1>4, <1>6 DEF QInv, QueuedTracked
<1>10. \A j, l \in imports' : j.op.hash = l.op.hash => j = l
  BY <1>6 DEF QInv, QueuedTracked
<1>11. QueuedTracked'
  BY <1>7, <1>8, <1>9, <1>10 DEF QueuedTracked
<1>12. OpsGood'
  BY DEF QInv, OpsGood, GoodOp
<1>. QED  BY <1>1, <1>3, <1>11, <1>12 DEF QInv, HonestKept

\* What leaves the queue and the goroutines alone.
LEMMA QueueStutter ==
    ASSUME QInv, UNCHANGED <<queue, queues, queued, imports>>, blocks' \subseteq Block, HonestKept'
    PROVE  QInv'
<1>1. QueueType' /\ QueuesCount' /\ OpsGood'
  BY DEF QInv, QueueType, QueuesCount, OpsGood, GoodOp
<1>2. QueuedTracked'
  BY DEF QInv, QueuedTracked
<1>. QED  BY <1>1, <1>2 DEF QInv

\* FilterHeaders drops a peer for a wrong number only, so no honest one.
LEMMA HeadersKeepQueue ==
    ASSUME AInv, QInv, NEW p, NEW h \in Block, FilterHeaders(p, h)
    PROVE  QInv'
<1>. DEFINE a == ann.fetching[h]
<1>1. /\ UNCHANGED <<queue, queues, queued, imports>>
      /\ blocks' = blocks \/ blocks' = {h}
      /\ dropped' = dropped
         \/ (a # None /\ a.origin = p /\ Number[h] # a.number /\ dropped' = dropped \union {p})
  BY DEF FilterHeaders, queueVars
<1>2. blocks' \subseteq Block
  BY <1>1 DEF QInv, QueueType
<1>3. a # None => GoodFor(h, a)
  BY DEF AInv, AnnOK, EntryOK
<1>4. HonestKept'
  BY <1>1, <1>3 DEF QInv, HonestKept, GoodFor
<1>. QED  BY <1>1, <1>2, <1>4, QueueStutter


-----------------------------------------------------------------------------
\* The inductive invariant of the fetcher.
RequestsOK ==
    requests \subseteq [what : {"header", "bodies"}, peer : Peer, hashes : SUBSET Block]

FInv == AInv /\ QInv /\ RequestsOK

LEMMA InitFInv == Init => FInv
<1>. SUFFICES ASSUME Init PROVE FInv
  OBVIOUS
<1>1. AInv
  <2>1. ann.announced = [h \in Block |-> <<>>] /\ ann.fetched = [h \in Block |-> <<>>]
        /\ ann.fetching = [h \in Block |-> None] /\ ann.completing = [h \in Block |-> None]
    BY DEF Init
  <2>2. ann = [announces |-> ann.announces, announced |-> ann.announced,
               fetching |-> ann.fetching, fetched |-> ann.fetched,
               completing |-> ann.completing]
    BY DEF Init
  <2>3. /\ ann.announced \in [Block -> Seq(Announce)]
        /\ ann.fetching \in [Block -> Announce \union {None}]
        /\ ann.fetched \in [Block -> Seq(Announce)]
        /\ ann.completing \in [Block -> Announce \union {None}]
    <3>. DEFINE A == Announce
    <3>. HIDE DEF A
    <3>1. <<>> \in Seq(A)
      OBVIOUS
    <3>. QED  BY <2>1, <3>1 DEF A
  <2>4. AnnOK(ann)
    BY <2>1, <2>2, <2>3, EmptyEntry DEF AnnOK
  <2>5. TimerOK /\ TimersRunning
    BY DEF Init, TimerOK, TimersRunning
  <2>. QED  BY <2>4, <2>5 DEF AInv
<1>2. QInv
  <2>1. QueueType
    BY FetcherAssumption DEF Init, QueueType
  <2>2. QueuesCount
    <3>1. ASSUME NEW p \in Peer PROVE queues[p] = Cardinality({h \in Block : queued[h] = p})
      <4>1. {h \in Block : queued[h] = p} = {}
        BY FetcherAssumption DEF Init
      <4>2. Cardinality({}) = 0
        BY FS_EmptySet
      <4>. QED  BY Zenon, <4>1, <4>2 DEF Init
    <3>. QED  BY <3>1 DEF QueuesCount
  <2>3. QueuedTracked /\ OpsGood /\ HonestKept
    BY DEF Init, QueuedTracked, OpsGood, HonestKept
  <2>. QED  BY SMTT(30), <2>1, <2>2, <2>3 DEF QInv
<1>3. RequestsOK
  BY SMTT(30) DEF Init, RequestsOK
<1>. QED  BY <1>1, <1>2, <1>3 DEF FInv

\* A pick of announcements names peers.
LEMMA PickedPeers ==
    ASSUME AnnOK(ann), NEW m, m \in {ann.announced, ann.fetched}, NEW S \in SUBSET Block,
           NEW pick \in Picks(m, S), NEW h \in S
    PROVE  pick[h].origin \in Peer
<1>1. PICK i \in DOMAIN m[h] : pick[h] = m[h][i]
  BY DEF Picks, Range
<1>2. EntryOK(h, ann.announced[h], ann.fetching[h], ann.fetched[h], ann.completing[h])
  BY DEF AnnOK
<1>3. GoodFor(h, m[h][i])
  BY <1>1, <1>2 DEF EntryOK
<1>. QED  BY <1>1, <1>3 DEF GoodFor, Announce

\* What the peers offer honours MayOffer, so it keeps the invariant.
LEMMA OfferKeeps ==
    ASSUME FInv, NEW p \in Peer, NEW h \in Block,
           PeerAnnounces(p, h) \/ PeerPropagates(p, h) \/ Spurious(p, h)
    PROVE  FInv'
<1>1. CASE PeerAnnounces(p, h)
  <2>1. PICK n \in (IF p \in Honest THEN {} ELSE Claims) \union {Number[h]} : Notify(p, h, n)
    BY <1>1 DEF PeerAnnounces
  <2>2. n \in Nat /\ (p \in Honest => n = Number[h] /\ Verdict[h] # "badHeader")
    BY <1>1, <2>1, FetcherAssumption DEF PeerAnnounces, MayOffer
  <2>3. AInv'
    BY <2>1, <2>2, NotifyKeeps DEF FInv
  <2>4. QInv'
    <3>1. UNCHANGED <<queue, queues, queued, imports, blocks, dropped>>
      BY <2>1 DEF Notify, queueVars
    <3>2. blocks' \subseteq Block /\ HonestKept'
      BY <3>1 DEF FInv, QInv, QueueType, HonestKept
    <3>. QED  BY <3>1, <3>2, QueueStutter DEF FInv
  <2>5. RequestsOK'
    BY <2>1 DEF FInv, RequestsOK, Notify
  <2>. QED  BY <2>3, <2>4, <2>5 DEF FInv
<1>2. CASE PeerPropagates(p, h)
  <2>1. Enqueue(p, h) /\ (p \in Honest => Verdict[h] # "badHeader")
    BY <1>2 DEF PeerPropagates, MayOffer
  <2>2. enqueue(p, h) /\ UNCHANGED <<imports, timer, blocks, dropped, requests>>
    BY <2>1 DEF Enqueue
  <2>3. AInv'
    <3>1. ann' = forgetHash({h}) \/ ann' = ann
      BY <2>2 DEF enqueue
    <3>. QED  BY <2>2, <3>1, ForgetStep, AnnStutter DEF FInv
  <2>4. QInv'
    BY <2>1, <2>2, EnqueueKeeps DEF FInv
  <2>. QED  BY <2>2, <2>3, <2>4 DEF FInv, RequestsOK
<1>3. CASE Spurious(p, h)
  <2>0. UNCHANGED requests
    BY <1>3 DEF Spurious
  <2>1. CASE FilterHeaders(p, h)
    BY <2>0, <2>1, HeadersKeep, HeadersKeepQueue DEF FInv, RequestsOK
  <2>2. CASE FilterBodies(p, {Body[h]})
    <3>1. PICK S : ann' = forgetHash(S)
      BY SMTT(30), <2>2 DEF FilterBodies
    <3>2. UNCHANGED <<queue, queues, queued, imports, timer, dropped>> /\ blocks' \subseteq Block
      BY <2>2 DEF FilterBodies, queueVars
    <3>3. AInv'
      BY <3>1, <3>2, ForgetStep DEF FInv
    <3>4. QInv'
      BY <3>2, QueueStutter DEF FInv, QInv, HonestKept
    <3>. QED  BY <2>0, <3>3, <3>4 DEF FInv, RequestsOK
  <2>. QED  BY <1>3, <2>1, <2>2 DEF Spurious
<1>. QED  BY <1>1, <1>2, <1>3


\* Every step of the fetcher, its peers and the node keeps the invariant.
LEMMA StepFInv == FInv /\ [Next]_vars => FInv'
<1>. SUFFICES ASSUME FInv, [Next]_vars PROVE FInv'
  OBVIOUS
<1>0. AInv /\ QInv /\ RequestsOK /\ AnnOK(ann)
  BY DEF FInv, AInv
<1>1. CASE Expire
  <2>1. PICK S : ann' = forgetHash(S)
    BY <1>1 DEF Expire
  <2>2. UNCHANGED <<queue, queues, queued, imports, timer, blocks, dropped, requests>>
    BY <1>1 DEF Expire, queueVars, outside
  <2>3. AInv'
    BY <1>0, <2>1, <2>2, ForgetStep
  <2>4. QInv'
    BY <1>0, <2>2, QueueStutter DEF QInv, QueueType, HonestKept
  <2>. QED  BY <1>0, <2>2, <2>3, <2>4 DEF FInv, RequestsOK
<1>2. CASE ImportNext
  <2>1. UNCHANGED <<ann, timer, blocks, dropped, requests>>
    BY <1>2 DEF ImportNext, outside
  <2>2. AInv'
    BY <1>0, <2>1, AnnStutter
  <2>3. QInv'
    <3>1. CASE UNCHANGED <<queue, queues, queued, imports>>
      BY <1>0, <2>1, <3>1, QueueStutter DEF QInv, QueueType, HonestKept
    <3>2. CASE \E op \in queue : /\ queue' = queue \ {op} /\ forgetBlock(op.hash)
                                 /\ UNCHANGED imports
      BY <1>0, <2>1, <3>2, DiscardKeeps
    <3>3. CASE \E op \in queue : /\ queue' = queue \ {op}
                                 /\ imports' = imports \union {[op |-> op, done |-> FALSE]}
                                 /\ UNCHANGED <<queues, queued>>
      BY <1>0, <2>1, <3>3, InsertKeeps
    <3>. QED  BY <1>2, <3>1, <3>2, <3>3 DEF ImportNext, PutBack, queueVars
  <2>. QED  BY <1>0, <2>1, <2>2, <2>3 DEF FInv, RequestsOK
<1>3. CASE EnqueueNext
  <2>1. UNCHANGED <<imports, timer, dropped, requests>>
    BY <1>3 DEF EnqueueNext, outside
  <2>2. CASE UNCHANGED <<ann, queue, queues, queued>> /\ blocks' \subseteq blocks
    <3>1. AInv'
      BY <1>0, <2>1, <2>2, AnnStutter
    <3>2. QInv'
      BY <1>0, <2>1, <2>2, QueueStutter DEF QInv, QueueType, HonestKept
    <3>. QED  BY <1>0, <2>1, <3>1, <3>2 DEF FInv, RequestsOK
  <2>3. ASSUME NEW h \in blocks, blocks' = blocks \ {h}, ann.completing[h] # None,
               enqueue(ann.completing[h].origin, h)
        PROVE  FInv'
    <3>. DEFINE p == ann.completing[h].origin
    <3>1. h \in Block
      BY <1>0 DEF QInv, QueueType
    <3>2. GoodFor(h, ann.completing[h])
      BY <1>0, <2>3, <3>1 DEF AnnOK, EntryOK
    <3>3. p \in Peer /\ (p \in Honest => Verdict[h] # "badHeader")
      BY <3>2 DEF GoodFor, Announce
    <3>4. enqueue(p, h)
      BY SMTT(30), <2>3
    <3>5. ann' = forgetHash({h}) \/ ann' = ann
      BY <3>4 DEF enqueue
    <3>. HIDE DEF p
    <3>6. AInv'
      BY SMTT(30), <1>0, <2>1, <3>5, ForgetStep, AnnStutter
    <3>7. QInv'
      BY <1>0, <2>1, <2>3, <3>1, <3>3, <3>4, EnqueueKeeps
    <3>. QED  BY <1>0, <2>1, <3>6, <3>7 DEF FInv, RequestsOK
  <2>. QED  BY <1>3, <2>2, <2>3 DEF EnqueueNext, queueVars
<1>4. CASE CompleteTimer
  <2>1. UNCHANGED <<queue, queues, queued, imports, blocks, dropped>>
    BY <1>4 DEF CompleteTimer, queueVars
  <2>2. AInv'
    BY <1>0, <1>4, CompleteKeeps
  <2>3. QInv'
    BY SMTT(30), <1>0, <2>1, QueueStutter DEF QInv, QueueType, HonestKept
  <2>4. RequestsOK'
    <3>. DEFINE S == Keys(ann.fetched)
    <3>1. S \in SUBSET Block
      BY DEF Keys
    <3>2. PICK pick \in Picks(ann.fetched, S) :
            requests' = requests \union
                {[what |-> "bodies", peer |-> p,
                  hashes |-> {h \in S \ chain : pick[h].origin = p}] :
                      p \in {pick[h].origin : h \in S \ chain}}
      BY <1>4 DEF CompleteTimer
    <3>. HIDE DEF S
    <3>3. \A h \in S : pick[h].origin \in Peer
      BY <1>0, <3>1, <3>2, PickedPeers
    <3>. DEFINE Asked(p) == {h \in S \ chain : pick[h].origin = p}
    <3>4. \A p \in {pick[h].origin : h \in S \ chain} : p \in Peer
      BY <3>3
    <3>5. \A p : Asked(p) \in SUBSET Block
      BY SMTT(30), <3>1
    <3>6. requests' = requests \union
            {[what |-> "bodies", peer |-> p, hashes |-> Asked(p)] :
                 p \in {pick[h].origin : h \in S \ chain}}
      BY Zenon, <3>2
    <3>. HIDE DEF Asked
    <3>. QED  BY <1>0, <3>4, <3>5, <3>6 DEF RequestsOK
  <2>. QED  BY <2>2, <2>3, <2>4 DEF FInv
<1>5. CASE Stop \/ \E b \in Synced : Sync(b)
  <2>1. UNCHANGED <<ann, timer, queue, queues, queued, imports, blocks, dropped, requests>>
    BY <1>5 DEF Stop, Sync, queueVars, outside
  <2>2. AInv'
    BY <1>0, <2>1, AnnStutter
  <2>3. QInv'
    BY <1>0, <2>1, QueueStutter DEF QInv, QueueType, HonestKept
  <2>. QED  BY <1>0, <2>1, <2>2, <2>3 DEF FInv, RequestsOK
<1>6. ASSUME NEW i \in imports, InsertBlock(i) PROVE FInv'
  <2>1. UNCHANGED <<ann, timer, requests>>
    BY <1>6 DEF InsertBlock
  <2>2. AInv'
    BY <1>0, <2>1, AnnStutter
  <2>3. QInv'
    BY <1>0, <1>6, ImportKeeps
  <2>. QED  BY <1>0, <2>1, <2>2, <2>3 DEF FInv, RequestsOK
<1>7. ASSUME NEW i \in imports, Done(i) PROVE FInv'
  <2>1. /\ imports' = imports \ {i} /\ forgetBlock(i.op.hash)
        /\ ann' = forgetHash({i.op.hash})
        /\ UNCHANGED <<queue, timer, blocks, dropped, requests>>
    BY <1>7 DEF Done, outside
  <2>2. AInv'
    BY <1>0, <2>1, ForgetStep
  <2>3. QInv'
    BY <1>0, <2>1, DoneKeeps
  <2>. QED  BY <1>0, <2>1, <2>2, <2>3 DEF FInv, RequestsOK
<1>8. ASSUME NEW old \in SUBSET Block, FetchTimer(old) PROVE FInv'
  <2>1. UNCHANGED <<queue, queues, queued, imports, blocks, dropped>>
    BY <1>8 DEF FetchTimer, queueVars
  <2>2. AInv'
    BY <1>0, <1>8, FetchKeeps
  <2>3. QInv'
    BY SMTT(30), <1>0, <2>1, QueueStutter DEF QInv, QueueType, HonestKept
  <2>4. RequestsOK'
    <3>1. PICK pick \in Picks(ann.announced, old) :
            requests' = requests \union
                {[what |-> "header", peer |-> pick[h].origin, hashes |-> {h}] : h \in old \ chain}
      BY Zenon, <1>8 DEF FetchTimer
    <3>2. \A h \in old : pick[h].origin \in Peer
      BY <1>0, <3>1, PickedPeers
    <3>. QED  BY <1>0, <3>1, <3>2 DEF RequestsOK
  <2>. QED  BY <2>2, <2>3, <2>4 DEF FInv
<1>9. ASSUME NEW p \in Peer, NEW h \in Block,
             PeerAnnounces(p, h) \/ PeerPropagates(p, h) \/ Spurious(p, h)
      PROVE  FInv'
  BY <1>9, OfferKeeps
<1>10. ASSUME NEW r \in requests, HeaderReply(r) PROVE FInv'
  <2>1. PICK h \in r.hashes : FilterHeaders(r.peer, h)
    BY <1>10 DEF HeaderReply
  <2>2. h \in Block
    BY <1>0, <2>1 DEF RequestsOK
  <2>3. AInv' /\ QInv'
    BY <1>0, <2>1, <2>2, HeadersKeep, HeadersKeepQueue
  <2>4. RequestsOK'
    BY <1>0, <1>10 DEF HeaderReply, RequestsOK
  <2>. QED  BY <2>3, <2>4 DEF FInv
<1>11. ASSUME NEW r \in requests, BodiesReply(r) PROVE FInv'
  <2>. DEFINE B == {Body[h] : h \in r.hashes}
  <2>1. FilterBodies(r.peer, B) /\ requests' = requests \ {r}
    BY <1>11 DEF BodiesReply
  <2>. HIDE DEF B
  <2>2. PICK S : ann' = forgetHash(S)
    BY Zenon, <2>1 DEF FilterBodies
  <2>3. UNCHANGED <<queue, queues, queued, imports, timer, dropped>> /\ blocks' \subseteq Block
    BY <2>1 DEF FilterBodies, queueVars
  <2>4. AInv'
    BY <1>0, <2>2, <2>3, ForgetStep
  <2>5. QInv'
    BY <1>0, <2>3, QueueStutter DEF QInv, HonestKept
  <2>. QED  BY <1>0, <2>1, <2>4, <2>5 DEF FInv, RequestsOK
<1>12. CASE UNCHANGED vars
  <2>1. UNCHANGED <<ann, timer, queue, queues, queued, imports, blocks, dropped, requests>>
    BY <1>12 DEF vars
  <2>2. AInv'
    BY <1>0, <2>1, AnnStutter
  <2>3. QInv'
    BY <1>0, <2>1, QueueStutter DEF QInv, QueueType, HonestKept
  <2>. QED  BY <1>0, <2>1, <2>2, <2>3 DEF FInv, RequestsOK
<1>. QED
  BY <1>1, <1>2, <1>3, <1>4, <1>5, <1>6, <1>7, <1>8, <1>9, <1>10, <1>11, <1>12 DEF Next

-----------------------------------------------------------------------------
\* The announcements, the queue and the requests stay in order over any run.
THEOREM FetcherInvariant == Spec => []FInv
<1>. QED  BY InitFInv, StepFInv, PTL DEF Spec

\* enqueue, forgetBlock: a peer's count of queued blocks is exact.
THEOREM QueuesCorrect == Spec => []QueuesCount
<1>1. FInv => QueuesCount
  BY DEF FInv, QInv
<1>. QED  BY <1>1, FetcherInvariant, PTL

\* loop, insert: every queued block is in the queue or being imported once.
THEOREM QueuedCorrect == Spec => []QueuedTracked
<1>1. FInv => QueuedTracked
  BY SMTT(30) DEF FInv, QInv
<1>. QED  BY <1>1, FetcherInvariant, PTL

\* enqueue, loop, insert, forgetBlock: the records of the import queue agree.
THEOREM QueueExactCorrect == Spec => []QueueExact
<1>1. QueuesCount /\ QueuedTracked => QueueExact
  BY DEF QueueExact
<1>. QED  BY <1>1, QueuesCorrect, QueuedCorrect, PTL

\* loop: a hash is in one stage at a time.
THEOREM StagesCorrect == Spec => []StagesExclusive
<1>1. FInv => StagesExclusive
  BY SMTT(30) DEF FInv, AInv, AnnOK, EntryOK, StagesExclusive
<1>. QED  BY <1>1, FetcherInvariant, PTL

\* loop: the body filter never meets an announcement without its header.
THEOREM HeadersCorrect == Spec => []HeadersKnown
<1>1. FInv => HeadersKnown
  BY DEF FInv, AInv, AnnOK, EntryOK, HeadersKnown
<1>. QED  BY <1>1, FetcherInvariant, PTL

\* rescheduleFetch, rescheduleComplete: what waits has its timer running.
THEOREM TimersCorrect == Spec => []TimersRunning
<1>1. FInv => TimersRunning
  BY DEF FInv, AInv
<1>. QED  BY <1>1, FetcherInvariant, PTL

\* loop: the stages of an announcement are exact, and what waits is moved on by a timer.
THEOREM StagesExactCorrect == Spec => []StagesExact
<1>1. StagesExclusive /\ HeadersKnown /\ TimersRunning => StagesExact
  BY DEF StagesExact
<1>. QED  BY <1>1, StagesCorrect, HeadersCorrect, TimersCorrect, PTL

\* dropPeer: honest peers are kept.
THEOREM HonestCorrect == Spec => []HonestKept
<1>1. FInv => HonestKept
  BY DEF FInv, QInv
<1>. QED  BY <1>1, FetcherInvariant, PTL

=============================================================================
