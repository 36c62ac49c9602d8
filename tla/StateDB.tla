------------------------------ MODULE StateDB -------------------------------
(***************************************************************************)
(* The accounts of one block under execution: objects cached over the      *)
(* account trie, a journal that undoes changes, and the writing back.      *)
(*                                                                         *)
(* A storage trie is its content, and so is its root.  Revision numbers    *)
(* only serve to find a revision that is still valid, so a revision is     *)
(* its place in validRevisions.  Accounts are changed the way the EVM      *)
(* changes them: an account gets storage when it has code or a nonce, and  *)
(* is created over an existing one only if that has neither.               *)
(***************************************************************************)
EXTENDS Integers, Sequences, SequencesExt, FiniteSets

CONSTANTS
    Address, Key,
    Ripemd,       \* the address touch treats in its own way
    EIP158,       \* deleteEmptyObjects, and the first nonce of a contract
    Ops,          \* the operations of an instance
    MaxJournal, MaxDirties, MaxRevisions, MaxBalance  \* bounds

VARIABLES
    s,      \* the StateDB and its database
    saved   \* the view at each valid revision

vars == <<s, saved>>

Val == {0, 1}
NoVal == 2
EmptyStorage == [k \in Key |-> 0]
NoEntries == [k \in Key |-> NoVal]
NoTrie == << >>
NoObject == [none |-> TRUE]
NoAccount == [none |-> TRUE]

\* An object of stateObjects; code is the code hash, blob: the code is in memory.
newObject(acc) ==
    [nonce |-> acc.nonce, bal |-> acc.bal, code |-> acc.code, root |-> acc.root,
     trie |-> NoTrie, origin |-> NoEntries, dirty |-> NoEntries,
     blob |-> FALSE, dirtyCode |-> FALSE, suicided |-> FALSE, deleted |-> FALSE]

Account(o) == [nonce |-> o.nonce, bal |-> o.bal, code |-> o.code, root |-> o.root]

EmptyAccount == [nonce |-> 0, bal |-> 0, code |-> "", root |-> EmptyStorage]

empty(o) == o.nonce = 0 /\ o.bal = 0 /\ o.code = ""

\* Opening a trie that is not in the database leaves an empty one.
Opened(d, o) == IF o.trie # NoTrie THEN o.trie
                ELSE IF o.root \in d.tries THEN o.root ELSE EmptyStorage

GetCommitted(d, o, k) == IF o.origin[k] # NoVal THEN o.origin[k] ELSE Opened(d, o)[k]

GetStateOf(d, o, k) == IF o.dirty[k] # NoVal THEN o.dirty[k] ELSE GetCommitted(d, o, k)

Code(d, o) == IF o.blob \/ o.code \in d.codes \cup {""} THEN o.code ELSE "lost"

\* getStateObject, without what it caches: NoObject for nil.
Object(d, a) ==
    IF d.objs[a] # NoObject THEN IF d.objs[a].deleted THEN NoObject ELSE d.objs[a]
    ELSE IF d.trie[a] = NoAccount THEN NoObject ELSE newObject(d.trie[a])

Exist(d, a) == Object(d, a) # NoObject

\* What the getters return.
ViewOf(d, a) ==
    IF ~Exist(d, a) THEN NoAccount
    ELSE LET o == Object(d, a)
         IN  [nonce |-> o.nonce, bal |-> o.bal, code |-> Code(d, o), suicided |-> o.suicided,
              storage |-> [k \in Key |-> GetStateOf(d, o, k)]]

View(d) == [accounts |-> [a \in Address |-> ViewOf(d, a)],
            refund |-> d.refund, logs |-> d.logs, preimages |-> d.preimages]

-----------------------------------------------------------------------------
(***************************************************************************)
(* The journal.                                                            *)
(***************************************************************************)

Dirtied(kind) == kind \notin {"reset", "refund", "log", "preimage"}

Append1(d, kind, a, prev) ==
    [d EXCEPT !.journal = Append(@, [kind |-> kind, addr |-> a, prev |-> prev]),
              !.dirties[a] = IF Dirtied(kind) THEN @ + 1 ELSE @]

Set(d, a, o) == [d EXCEPT !.objs[a] = o]

\* The revert method of each entry; touch has nothing to undo.
Undone(d, e) ==
    CASE e.kind = "create"   -> [d EXCEPT !.objs[e.addr] = NoObject, !.dirty = @ \ {e.addr}]
      [] e.kind = "reset"    -> Set(d, e.addr, e.prev)
      [] e.kind = "suicide"  -> [d EXCEPT !.objs[e.addr].suicided = e.prev.suicided,
                                          !.objs[e.addr].bal = e.prev.bal]
      [] e.kind = "balance"  -> [d EXCEPT !.objs[e.addr].bal = e.prev]
      [] e.kind = "nonce"    -> [d EXCEPT !.objs[e.addr].nonce = e.prev]
      [] e.kind = "code"     -> [d EXCEPT !.objs[e.addr].code = e.prev, !.objs[e.addr].blob = TRUE,
                                          !.objs[e.addr].dirtyCode = TRUE]
      [] e.kind = "storage"  -> [d EXCEPT !.objs[e.addr].dirty[e.prev.key] = e.prev.val]
      [] e.kind = "refund"   -> [d EXCEPT !.refund = e.prev]
      [] e.kind = "log"      -> [d EXCEPT !.logs = @ - 1]
      [] e.kind = "preimage" -> [d EXCEPT !.preimages = FALSE]
      [] e.kind = "touch"    -> d

UndoneEntry(e, d) ==
    [Undone(d, e) EXCEPT !.dirties[e.addr] = IF Dirtied(e.kind) THEN @ - 1 ELSE @]

RevertedTo(d, length) ==
    [FoldRight(UndoneEntry, SubSeq(d.journal, length + 1, Len(d.journal)), d)
        EXCEPT !.journal = SubSeq(@, 1, length)]

-----------------------------------------------------------------------------
(***************************************************************************)
(* The setters, as functions of the state.                                 *)
(***************************************************************************)

\* getStateObject caches what it read from the trie.
Load(d, a) == IF d.objs[a] = NoObject /\ Exist(d, a) THEN Set(d, a, Object(d, a)) ELSE d

\* Mutant: a new object is not recorded in the journal.
createObjectUnrecorded(d, a) == Set(d, a, newObject(EmptyAccount))

createObject(d, a) ==
    IF Exist(d, a) THEN Set(Append1(d, "reset", a, d.objs[a]), a, newObject(EmptyAccount))
    ELSE Set(Append1(d, "create", a, 0), a, newObject(EmptyAccount))

GetOrNew(d, a) == IF Exist(d, a) THEN Load(d, a) ELSE createObject(d, a)

CreateAccount(d, a) ==
    [createObject(Load(d, a), a) EXCEPT !.objs[a].bal = IF Exist(d, a) THEN Object(d, a).bal ELSE 0]

SetBalanceOf(d, a, v) == [Append1(d, "balance", a, d.objs[a].bal) EXCEPT !.objs[a].bal = v]

touch(d, a) ==
    [Append1(d, "touch", a, 0) EXCEPT !.dirties[a] = IF a = Ripemd THEN @ + 1 ELSE @]

AddTo(d, a, v) == IF v # 0 THEN SetBalanceOf(d, a, d.objs[a].bal + v)
                  ELSE IF empty(d.objs[a]) THEN touch(d, a) ELSE d

AddBalance(d, a, v) == AddTo(GetOrNew(d, a), a, v)

SubBalance(d, a, v) ==
    IF v = 0 THEN GetOrNew(d, a) ELSE SetBalanceOf(GetOrNew(d, a), a, Object(d, a).bal - v)

SetNonce(d, a, n) ==
    [Append1(GetOrNew(d, a), "nonce", a, GetOrNew(d, a).objs[a].nonce) EXCEPT !.objs[a].nonce = n]

SetCode(d, a, c) ==
    [Append1(Load(d, a), "code", a, Object(d, a).code)
        EXCEPT !.objs[a].code = c, !.objs[a].blob = TRUE, !.objs[a].dirtyCode = TRUE]

\* Reading a slot opens the trie and caches the value.
Cached(d, a, k) ==
    LET o == Object(d, a)
    IN  IF o.dirty[k] # NoVal \/ o.origin[k] # NoVal THEN Load(d, a)
        ELSE [Load(d, a) EXCEPT !.objs[a].trie = Opened(d, o),
                                !.objs[a].origin[k] = GetCommitted(d, o, k)]

SetState(d, a, k, v) ==
    LET prev == GetStateOf(d, Object(d, a), k)
    IN  IF prev = v THEN Cached(d, a, k)
        ELSE [Append1(Cached(d, a, k), "storage", a, [key |-> k, val |-> prev])
                 EXCEPT !.objs[a].dirty[k] = v]

Suicide(d, a) ==
    [Append1(Load(d, a), "suicide", a, [suicided |-> Object(d, a).suicided, bal |-> Object(d, a).bal])
        EXCEPT !.objs[a].suicided = TRUE, !.objs[a].bal = 0]

-----------------------------------------------------------------------------
(***************************************************************************)
(* Writing back.                                                           *)
(***************************************************************************)

\* updateTrie: the dirty slots go to the trie of the object, if they differ.
Written(d, o) ==
    [o EXCEPT !.trie = [k \in Key |-> IF o.dirty[k] = NoVal THEN Opened(d, o)[k] ELSE o.dirty[k]],
              !.origin = [k \in Key |-> IF o.dirty[k] = NoVal THEN @[k] ELSE o.dirty[k]],
              !.dirty = NoEntries]

Rooted(o) == [o EXCEPT !.root = o.trie]

Deleted(d, a) == [d EXCEPT !.objs[a].deleted = TRUE, !.trie[a] = NoAccount]

Updated(d, a, o) == [d EXCEPT !.objs[a] = o, !.trie[a] = Account(o)]

FinalisedObject(d, a) ==
    LET o == d.objs[a]
    IN  IF o.suicided \/ (EIP158 /\ empty(o)) THEN Deleted(d, a)
        ELSE Updated(d, a, Rooted(Written(d, o)))

FinaliseDirty(d, a) ==
    IF d.dirties[a] = 0 \/ d.objs[a] = NoObject THEN d
    ELSE [FinalisedObject(d, a) EXCEPT !.dirty = @ \cup {a}]

clearJournalAndRefund(d) ==
    [d EXCEPT !.journal = << >>, !.dirties = [a \in Address |-> 0], !.refund = 0, !.revs = << >>]

Finalise(d) == clearJournalAndRefund(FoldLeft(FinaliseDirty, d, SetToSeq(Address)))

\* Commit for one object: CommitTrie, and the code blob.
CommitObject(d, a) ==
    LET o == d.objs[a]
        w == Rooted(Written(d, o))
        isDirty == a \in d.dirty
    IN  IF o = NoObject THEN d
        ELSE IF o.suicided \/ (isDirty /\ EIP158 /\ empty(o))
        THEN [Deleted(d, a) EXCEPT !.dirty = @ \ {a}]
        ELSE IF isDirty
        THEN [Updated(d, a, [w EXCEPT !.dirtyCode = @ /\ ~o.blob])
                 EXCEPT !.dirty = @ \ {a}, !.tries = @ \cup {w.root},
                        !.codes = IF o.blob /\ o.dirtyCode THEN @ \cup {o.code} ELSE @]
        ELSE d

MarkDirty(d) == [d EXCEPT !.dirty = @ \cup {a \in Address : d.dirties[a] > 0}]

Commit(d) == clearJournalAndRefund(FoldLeft(CommitObject, MarkDirty(d), SetToSeq(Address)))

\* Copy: the dirty objects and the trie; the journal stays behind.
Copied(d) == {a \in Address : d.dirties[a] > 0 /\ d.objs[a] # NoObject} \cup d.dirty

Copy(d) ==
    [d EXCEPT !.objs = [a \in Address |-> IF a \in Copied(d) THEN @[a] ELSE NoObject],
              !.dirty = Copied(d), !.dirties = [a \in Address |-> 0],
              !.journal = << >>, !.revs = << >>]

-----------------------------------------------------------------------------
(***************************************************************************)
(* What the EVM and the chain do with it.                                  *)
(***************************************************************************)

Init ==
    /\ s \in {[objs |-> [a \in Address |-> NoObject], dirty |-> {},
               dirties |-> [a \in Address |-> 0], journal |-> << >>, revs |-> << >>,
               refund |-> 0, logs |-> 0, preimages |-> FALSE, trie |-> t,
               tries |-> {EmptyStorage} \cup {t[a].root : a \in {b \in Address : t[b] # NoAccount}},
               codes |-> {"c"}] :
              t \in [Address -> {NoAccount, EmptyAccount,
                                 [nonce |-> 1, bal |-> 1, code |-> "c", root |-> [k \in Key |-> 1]]}]}
    /\ \A a \in Address : EIP158 => s.trie[a] # EmptyAccount
    /\ saved = << >>

\* One operation with journal entries.
Op(name, d) ==
    /\ name \in Ops
    /\ Len(d.journal) <= MaxJournal
    /\ \A a \in Address : d.dirties[a] <= MaxDirties
    /\ \A a \in Address : d.objs[a] # NoObject => d.objs[a].bal <= MaxBalance
    /\ s' = d
    /\ UNCHANGED saved

Balance(a) == IF Exist(s, a) THEN Object(s, a).bal ELSE 0

\* EVM.Call: the account of the callee, and the transfer.
Call(from, to, v) ==
    /\ Exist(s, from) /\ v <= Balance(from)
    /\ Exist(s, to) \/ ~EIP158 \/ v > 0
    /\ Op("call", AddBalance(SubBalance(IF Exist(s, to) THEN s ELSE CreateAccount(s, to), from, v), to, v))

\* evm.create, if nothing collides; the revision before it is an action of its own.
Create(a) ==
    /\ Exist(s, a) => Object(s, a).nonce = 0 /\ Object(s, a).code = ""
    /\ Op("create", IF EIP158 THEN SetNonce(CreateAccount(s, a), a, 1) ELSE AddTo(CreateAccount(s, a), a, 0))

Deploy(a) ==
    /\ Exist(s, a) /\ Object(s, a).code = "" /\ (EIP158 => Object(s, a).nonce > 0)
    /\ Op("deploy", SetCode(s, a, "d"))

Nonce(a) == Exist(s, a) /\ Object(s, a).nonce = 0 /\ Op("nonce", SetNonce(s, a, 1))

Store(a, k, v) ==
    /\ Exist(s, a) /\ (Object(s, a).code # "" \/ (EIP158 /\ Object(s, a).nonce > 0))
    /\ Op("store", SetState(s, a, k, v))

Read(a, k) == Exist(s, a) /\ Op("read", Cached(s, a, k))

\* opSuicide.
Destruct(a, to) ==
    /\ Exist(s, a) /\ Object(s, a).code # ""
    /\ Op("destruct", Suicide(AddBalance(s, to, Balance(a)), a))

\* AddRefund, AddLog, AddPreimage, of the first address.
Refund(a) == s.refund = 0 /\ Op("extra", [Append1(s, "refund", a, s.refund) EXCEPT !.refund = @ + 1])
Log(a) == s.logs = 0 /\ Op("extra", [Append1(s, "log", a, 0) EXCEPT !.logs = @ + 1])
Preimage(a) == ~s.preimages /\ Op("extra", [Append1(s, "preimage", a, 0) EXCEPT !.preimages = TRUE])

Snapshot ==
    /\ Len(s.revs) < MaxRevisions
    /\ s' = [s EXCEPT !.revs = Append(@, Len(s.journal))]
    /\ saved' = Append(saved, View(s))

RevertToSnapshot(i) ==
    /\ s' = [RevertedTo(s, s.revs[i]) EXCEPT !.revs = SubSeq(@, 1, i - 1)]
    /\ saved' = SubSeq(saved, 1, i - 1)

\* The end of a transaction, and of the block: IntermediateRoot comes before Commit.
EndTx == s' = Finalise(s) /\ saved' = << >>

Committed(d) == Commit(Finalise(d))

EndBlock == s' = Committed(s) /\ saved' = << >>

Next ==
    \/ \E a, b \in Address, v \in {0, 1} : Call(a, b, v)
    \/ \E a, b \in Address : Destruct(a, b)
    \/ \E a \in Address : Create(a) \/ Deploy(a) \/ Nonce(a) \/ Refund(a) \/ Log(a) \/ Preimage(a)
    \/ \E a \in Address, k \in Key : Read(a, k) \/ \E v \in Val : Store(a, k, v)
    \/ Snapshot
    \/ \E i \in DOMAIN s.revs : RevertToSnapshot(i)
    \/ EndTx
    \/ EndBlock

Spec == Init /\ [][Next]_vars

-----------------------------------------------------------------------------
(* The journal counts the changes of each account, and dirty accounts have an object: Copy
   dereferences it. *)
TypeOK ==
    /\ Len(saved) = Len(s.revs)
    /\ \A i \in DOMAIN s.revs : s.revs[i] <= Len(s.journal)
    /\ \A a \in Address :
          s.dirties[a] >= Cardinality({i \in DOMAIN s.journal : s.journal[i].addr = a /\ Dirtied(s.journal[i].kind)})
    /\ \A a \in s.dirty : s.objs[a] # NoObject

(* RevertToSnapshot gives back exactly what every getter returned when the snapshot was taken,
   whatever was created, replaced, destroyed or read in between. *)
RevertExact == \A i \in DOMAIN s.revs : View(RevertedTo(s, s.revs[i])) = saved[i]

(* Finalise and Commit keep what the getters returned, less the destroyed accounts and the empty
   ones that were touched. *)
Survives(a) ==
    /\ Exist(s, a) /\ ~Object(s, a).suicided
    /\ ~(EIP158 /\ empty(Object(s, a)) /\ (s.dirties[a] > 0 \/ a \in s.dirty))

WritesBack ==
    \A d \in {Finalise(s), Committed(s)}, a \in Address :
        ViewOf(d, a) = IF Survives(a) THEN ViewOf(s, a) ELSE NoAccount

(* What Commit wrote is whole: accounts, storage and code read from the database alone are the
   ones the getters return. *)
CommitWhole ==
    LET d == Committed(s)
    IN  View([d EXCEPT !.objs = [a \in Address |-> NoObject]]).accounts = View(d).accounts

(* A copy shows the same accounts as the original, and commits to the same state. *)
CopyExact ==
    /\ View(Copy(s)).accounts = View(s).accounts
    /\ View(Committed(Copy(s))).accounts = View(Committed(s)).accounts

=============================================================================
