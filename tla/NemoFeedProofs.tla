--------------------------- MODULE NemoFeedProofs ---------------------------
(***************************************************************************)
(* Proofs about NemoFeed, for any number of users, versions, settings and  *)
(* frames.  The invariant says what the lock protects: while a user holds  *)
(* it between its steps the settings are its own, and the snapshot is the  *)
(* one it found or has been cleared.                                       *)
(***************************************************************************)
EXTENDS NemoFeed, TLAPS

InLock(u) == user[u].pc \in {"signal", "reshape", "store"}

(* The lock is held between steps exactly by the user that writes. *)
MuOK == \A u \in Users : InLock(u) <=> mu = u

(* What a call knows at each point. *)
CallOK ==
    \A u \in Users :
        /\ user[u].pc # "idle" => user[u].version \in Versions
        /\ user[u].pc = "offer" => settings # None
        /\ InLock(u) => /\ settings # None
                        /\ user[u].old \in VersionedSettings
                        /\ user[u].version = settings.version
        /\ user[u].pc = "store" => user[u].loaded \in Snapshot

(* The client exists before its connection and its snapshot. *)
ClientOK ==
    /\ conn.pc # "none" => settings # None
    /\ snapshot # None => settings # None
    /\ settings # None => settings = Versioned(settings.version)

(* The snapshot has the buffer of the settings, or that of the settings    *)
(* which the holder of the lock has just replaced.                         *)
ShapeOK ==
    /\ SnapshotShaped
    /\ \A u \in Users : user[u].pc = "signal" /\ snapshot # None
                           => snapshot.buffer = user[u].old.buffer

(* What is about to be reshaped is the cached snapshot, or it was cleared; *)
(* and what came over the connection is not ahead of its last frame.       *)
SeqOK ==
    /\ own /\ snapshot # None => snapshot.seq <= conn.lastSeq
    /\ \A u \in Users : user[u].pc = "store" =>
          /\ snapshot # None => snapshot = user[u].loaded
          /\ own => user[u].loaded.seq <= conn.lastSeq

(* A frame that is being published has a sequence number. *)
PublishOK == conn.pc = "publish" => conn.lastSeq \in Seqs

FeedInv == TypeOK /\ MuOK /\ CallOK /\ ClientOK /\ ShapeOK /\ SeqOK /\ PublishOK

-----------------------------------------------------------------------------

LEMMA VersionedTyped ==
    ASSUME NEW v \in Versions
    PROVE  /\ Versioned(v) \in VersionedSettings
           /\ Versioned(v).version = v
           /\ Versioned(v).token = SettingsAt[v].token
           /\ Versioned(v).buffer = SettingsAt[v].buffer
           /\ Versioned(v) # None
<1>1. Versioned(v) \in VersionedSettings
  BY DEF Versioned, VersionedSettings, Tokens, Buffers
<1>2. /\ Versioned(v).version = v
      /\ Versioned(v).token = SettingsAt[v].token
      /\ Versioned(v).buffer = SettingsAt[v].buffer
  BY DEF Versioned
<1>. QED
  BY <1>1, <1>2, NilAssumption

LEMMA NoCallTyped ==
    /\ NoCall \in Call
    /\ NoCall.pc = "idle"
BY DEF NoCall, Call

LEMMA FeedInit == Init => FeedInv
<1> SUFFICES ASSUME Init PROVE FeedInv
  OBVIOUS
<1>1. conn \in Connection /\ conn.pc = "none"
  BY DEF Init, NoConnection, Connection
<1>2. user \in [Users -> Call] /\ \A u \in Users : user[u].pc = "idle"
  BY NoCallTyped DEF Init
<1>3. TypeOK
  BY <1>1, <1>2 DEF Init, TypeOK
<1>4. MuOK /\ CallOK
  BY <1>2, NilAssumption DEF Init, MuOK, CallOK, InLock
<1>5. ClientOK /\ ShapeOK /\ SeqOK /\ PublishOK
  BY <1>1, <1>2 DEF Init, ClientOK, ShapeOK, SnapshotShaped, SeqOK, PublishOK
<1>. QED
  BY <1>3, <1>4, <1>5 DEF FeedInv

(* Steps of the connection that leave the client alone. *)
LEMMA ConnectionStep ==
    ASSUME FeedInv, UNCHANGED <<settings, snapshot, mu, user, withdrawn, newest>>,
           reconnect' \in BOOLEAN, done' \in BOOLEAN, stray' \in BOOLEAN, lost' \in BOOLEAN,
           conn' \in Connection, conn'.pc # "none" => conn.pc # "none",
           conn'.pc = "publish" => conn'.lastSeq \in Seqs,
           own' \in BOOLEAN, own' => own /\ conn'.lastSeq >= conn.lastSeq
    PROVE  FeedInv'
<1>1. TypeOK'
  BY DEF FeedInv, TypeOK
<1>2. MuOK' /\ CallOK' /\ ClientOK'
  BY DEF FeedInv, MuOK, CallOK, ClientOK, InLock, Versioned
<1>3. ShapeOK'
  BY DEF FeedInv, ShapeOK, SnapshotShaped
<1>4. SeqOK'
  <2>1. conn.lastSeq \in Nat /\ conn'.lastSeq \in Nat
    BY DEF FeedInv, TypeOK, Connection, Seqs
  <2>2. snapshot # None => snapshot.seq \in Nat
    BY DEF FeedInv, TypeOK, Snapshot, Seqs
  <2>3. \A u \in Users : user[u].pc = "store" => user[u].loaded.seq \in Nat
    BY DEF FeedInv, CallOK, Snapshot, Seqs
  <2>. QED
    BY <2>1, <2>2, <2>3 DEF FeedInv, SeqOK
<1>. QED
  BY <1>1, <1>2, <1>3, <1>4 DEF FeedInv, PublishOK

(* Clearing the snapshot, which takes no lock, keeps the invariant. *)
LEMMA ClearStep ==
    ASSUME FeedInv, Cleared, conn' \in Connection,
           conn'.pc # "none" => conn.pc # "none", conn'.lastSeq >= conn.lastSeq,
           conn'.pc # "publish"
    PROVE  FeedInv'
<1>1. /\ snapshot' = None /\ withdrawn' = TRUE
      /\ UNCHANGED <<settings, mu, reconnect, done, user, stray, own, newest, lost>>
  BY DEF Cleared
<1>2. TypeOK'
  BY <1>1 DEF FeedInv, TypeOK
<1>3. MuOK' /\ CallOK' /\ ClientOK'
  BY <1>1 DEF FeedInv, MuOK, CallOK, ClientOK, InLock, Versioned
<1>4. ShapeOK'
  BY <1>1 DEF ShapeOK, SnapshotShaped
<1>5. SeqOK'
  <2>1. conn.lastSeq \in Nat /\ conn'.lastSeq \in Nat
    BY DEF FeedInv, TypeOK, Connection, Seqs
  <2>2. \A u \in Users : user[u].pc = "store" => user[u].loaded.seq \in Nat
    BY DEF FeedInv, CallOK, Snapshot, Seqs
  <2>. QED
    BY <1>1, <2>1, <2>2 DEF FeedInv, SeqOK
<1>. QED
  BY <1>2, <1>3, <1>4, <1>5 DEF FeedInv, PublishOK

(* The history of offers stays a version. *)
LEMMA LargerTyped ==
    ASSUME NEW n \in {0} \cup Versions, NEW v \in Versions
    PROVE  Larger(n, v) \in {0} \cup Versions
BY DEF Larger

(* Steps of a user outside the lock, which leave the client alone. *)
LEMMA OutsideStep ==
    ASSUME FeedInv, NEW u \in Users, NEW r \in Call, user' = [user EXCEPT ![u] = r],
           r.pc \in {"idle", "create", "offer"},
           r.pc # "idle" => r.version \in Versions,
           r.pc = "offer" => settings # None,
           ~InLock(u), newest' \in {0} \cup Versions,
           UNCHANGED <<client, conn, stray, withdrawn, own, lost>>
    PROVE  FeedInv'
<1>1. /\ user'[u] = r /\ user' \in [Users -> Call]
      /\ \A w \in Users : w # u => user'[w] = user[w]
  BY DEF FeedInv, TypeOK
<1>2. UNCHANGED <<settings, snapshot, mu, reconnect, done>>
  BY DEF client
<1>3. TypeOK'
  BY <1>1, <1>2 DEF FeedInv, TypeOK
<1>4. \A w \in Users : InLock(w)' <=> InLock(w)
  BY <1>1 DEF InLock
<1>5. MuOK'
  BY <1>2, <1>4 DEF FeedInv, MuOK
<1>6. CallOK'
  BY <1>1, <1>2, <1>4 DEF FeedInv, CallOK, InLock
<1>7. ClientOK'
  BY <1>2 DEF FeedInv, ClientOK, Versioned
<1>8. ShapeOK'
  BY <1>1, <1>2 DEF FeedInv, ShapeOK, SnapshotShaped
<1>9. SeqOK'
  BY <1>1, <1>2 DEF FeedInv, SeqOK
<1>. QED
  BY <1>3, <1>5, <1>6, <1>7, <1>8, <1>9 DEF FeedInv, PublishOK

(* Steps of the user that holds the lock, or takes it, or gives it back:   *)
(* the others are all outside.                                             *)
LEMMA HolderStep ==
    ASSUME FeedInv, NEW u \in Users, mu \in {u, None},
           NEW r \in Call, user' = [user EXCEPT ![u] = r],
           (r.pc \in {"signal", "reshape", "store"}) <=> mu' = u, mu' \in {u, None},
           r.pc # "idle" => r.version \in Versions /\ r.version = settings'.version
                               /\ r.old \in VersionedSettings,
           r.pc \in {"idle", "signal", "reshape", "store"},
           settings' \in VersionedSettings, settings' = Versioned(settings'.version),
           snapshot' \in Snapshot \cup {None},
           mu' = None /\ snapshot' # None => snapshot'.buffer = settings'.buffer,
           r.pc = "signal" /\ snapshot' # None => snapshot'.buffer = r.old.buffer,
           own /\ snapshot' # None => snapshot'.seq <= conn.lastSeq,
           r.pc = "store" => snapshot' = r.loaded /\ r.loaded \in Snapshot,
           reconnect' \in BOOLEAN, newest' \in {0} \cup Versions,
           UNCHANGED <<done, conn, stray, withdrawn, own, lost>>
    PROVE  FeedInv'
<1>1. /\ user'[u] = r /\ user' \in [Users -> Call]
      /\ \A w \in Users : w # u => user'[w] = user[w]
  BY DEF FeedInv, TypeOK
<1>2. settings' # None /\ u # None
  BY NilAssumption
<1>3. \A w \in Users : w # u => ~InLock(w) /\ ~InLock(w)'
  BY <1>1, NilAssumption DEF FeedInv, MuOK, InLock
<1>4. InLock(u)' <=> mu' = u
  BY <1>1 DEF InLock
<1>5. TypeOK'
  BY <1>1 DEF FeedInv, TypeOK
<1>6. MuOK'
  BY <1>2, <1>3, <1>4, NilAssumption DEF MuOK
<1>7. CallOK'
  BY <1>1, <1>2, <1>3 DEF FeedInv, CallOK, InLock
<1>8. ClientOK'
  <2>1. settings' = [token |-> SettingsAt[settings'.version].token,
                     buffer |-> SettingsAt[settings'.version].buffer,
                     version |-> settings'.version]
    BY DEF Versioned
  <2>. QED
    BY <1>2, <2>1 DEF ClientOK, Versioned
<1>9. ShapeOK'
  BY <1>1, <1>3 DEF ShapeOK, SnapshotShaped, InLock
<1>10. SeqOK'
  <2>1. own' => own /\ conn' = conn
    OBVIOUS
  <2>2. \A w \in Users : user'[w].pc = "store" => w = u
    BY <1>3 DEF InLock
  <2>3. r.pc = "store" => snapshot' = r.loaded /\ r.loaded # None
    BY NilAssumption
  <2>. QED
    BY <1>1, <2>1, <2>2, <2>3 DEF SeqOK
<1>. QED
  BY <1>5, <1>6, <1>7, <1>8, <1>9, <1>10 DEF FeedInv, PublishOK

(* Acquiring a client that exists. *)
LEMMA OfferBeginsStep ==
    ASSUME FeedInv, NEW u \in Users, NEW v \in Versions, OfferBegins(u, v), ~InLock(u),
           UNCHANGED <<snapshot, mu, reconnect, done, stray, withdrawn, own, lost>>
    PROVE  FeedInv'
<1>1. settings # None /\ UNCHANGED <<client, conn, stray, withdrawn, own, lost>>
  BY DEF OfferBegins, client
<1>2. newest \in {0} \cup Versions
  BY DEF FeedInv, TypeOK
<1>3. CASE user' = [user EXCEPT ![u] = NoCall] /\ newest' = Larger(newest, v)
  BY <1>1, <1>2, <1>3, NoCallTyped, LargerTyped, OutsideStep
<1>4. CASE /\ user' = [user EXCEPT ![u] = [NoCall EXCEPT !.pc = "offer", !.version = v]]
           /\ newest' = newest
  <2>1. PICK r : r = [NoCall EXCEPT !.pc = "offer", !.version = v]
    OBVIOUS
  <2>2. r \in Call /\ r.pc = "offer" /\ r.version = v
    BY <2>1 DEF NoCall, Call
  <2>. QED
    BY <1>1, <1>2, <1>4, <2>1, <2>2, OutsideStep
<1>. QED
  BY <1>3, <1>4 DEF OfferBegins, Finish

LEMMA UserStep ==
    ASSUME FeedInv, NEW u \in Users, OfferStep(u)
    PROVE  FeedInv'
<1>1. /\ user \in [Users -> Call] /\ newest \in {0} \cup Versions
      /\ conn \in Connection /\ snapshot \in Snapshot \cup {None}
      /\ settings \in VersionedSettings \cup {None} /\ reconnect \in BOOLEAN
  BY DEF FeedInv, TypeOK
<1>2. user[u] \in Call
  BY <1>1
<1>3. PICK v : v = user[u].version
  OBVIOUS
<1>4. user[u].pc # "idle" /\ v \in Versions
  BY <1>3, <1>2 DEF OfferStep, AcquireStore, OfferAdopt, OfferSignal, OfferLoad, OfferStore,
     FeedInv, CallOK
<1>5. NoCall \in Call /\ NoCall.pc = "idle" /\ Larger(newest, v) \in {0} \cup Versions
  BY <1>1, <1>4, NoCallTyped, LargerTyped
<1>6. CASE AcquireStore(u)
  <2>1. /\ user[u].pc = "create" /\ ~InLock(u)
        /\ UNCHANGED <<snapshot, mu, reconnect, done, stray, withdrawn, own, lost>>
    BY <1>6 DEF AcquireStore, InLock
  <2>2. CASE OfferBegins(u, v)
    BY <2>1, <2>2, <1>4, OfferBeginsStep
  <2>3. CASE Started(u)
    <3>1. /\ settings = None /\ settings' = Versioned(v)
          /\ conn' = [conn EXCEPT !.pc = "start"]
          /\ user' = [user EXCEPT ![u] = NoCall] /\ newest' = Larger(newest, v)
      BY <2>3, <1>3 DEF Started, Finish
    <3>2. /\ Versioned(v) \in VersionedSettings /\ Versioned(v) # None
          /\ Versioned(v).version = v
      BY <1>4, VersionedTyped
    <3>3. conn' \in Connection /\ conn'.lastSeq = conn.lastSeq
      BY <3>1, <1>1 DEF Connection
    <3>4. snapshot = None /\ \A w \in Users : ~InLock(w) /\ user[w].pc # "offer"
      BY <3>1 DEF FeedInv, ClientOK, CallOK
    <3>5. /\ user' \in [Users -> Call] /\ user'[u] = NoCall
          /\ \A w \in Users : w # u => user'[w] = user[w]
      BY <3>1, <1>1, <1>5
    <3>6. \A w \in Users : ~InLock(w)' /\ user'[w].pc \notin {"offer", "store", "signal"}
      BY <3>4, <3>5, <1>5 DEF InLock
    <3>7. TypeOK'
      BY <2>1, <3>1, <3>2, <3>3, <3>5, <1>5 DEF FeedInv, TypeOK
    <3>8. MuOK' /\ CallOK'
      BY <2>1, <3>4, <3>5, <3>6, <1>5 DEF FeedInv, MuOK, CallOK
    <3>9. ClientOK'
      BY <2>1, <3>1, <3>2, <3>4 DEF ClientOK, Versioned
    <3>10. ShapeOK' /\ SeqOK'
      BY <2>1, <3>4, <3>6 DEF ShapeOK, SnapshotShaped, SeqOK
    <3>11. PublishOK'
      BY <3>1, <1>1 DEF PublishOK, Connection
    <3>. QED
      BY <3>7, <3>8, <3>9, <3>10, <3>11 DEF FeedInv
  <2>. QED
    BY <1>3, <1>6, <2>2, <2>3 DEF AcquireStore
<1>7. CASE OfferAdopt(u)
  <2>1. /\ user[u].pc = "offer" /\ mu = None /\ ~InLock(u) /\ settings # None
        /\ UNCHANGED <<snapshot, reconnect, done, conn, stray, withdrawn, own, lost>>
    BY <1>7 DEF OfferAdopt, InLock, FeedInv, CallOK
  <2>2. CASE Finish(u, v) /\ UNCHANGED <<settings, mu>>
    <3>1. UNCHANGED <<client, conn, stray, withdrawn, own, lost>>
      BY <2>1, <2>2 DEF client
    <3>. QED
      BY <2>1, <2>2, <3>1, <1>5, OutsideStep DEF Finish
  <2>3. CASE /\ settings' = Versioned(v) /\ mu' = u /\ newest' = newest
             /\ user' = [user EXCEPT ![u].pc = "signal", ![u].old = settings]
    <3>1. PICK r : r = [user[u] EXCEPT !.pc = "signal", !.old = settings]
      OBVIOUS
    <3>2. r \in Call /\ r.pc = "signal" /\ r.old = settings /\ r.version = v
      BY <3>1, <1>1, <1>2, <1>3 DEF Call
    <3>3. user' = [user EXCEPT ![u] = r]
      BY <2>3, <3>1, <1>1
    <3>4. /\ settings' \in VersionedSettings /\ settings'.version = v
          /\ settings' = Versioned(settings'.version)
      <4>1. settings' \in VersionedSettings /\ settings'.version = v
        BY <2>3, <1>4, VersionedTyped
      <4>. QED
        BY <2>3, <4>1
    <3>5. snapshot # None => snapshot.buffer = settings.buffer
      BY <2>1 DEF FeedInv, ShapeOK, SnapshotShaped
    <3>6. own /\ snapshot # None => snapshot.seq <= conn.lastSeq
      BY DEF FeedInv, SeqOK
    <3>7. settings \in VersionedSettings /\ u # None /\ mu' # None
      BY <2>1, <2>3, <1>1, NilAssumption
    <3>. QED
      BY <2>1, <2>3, <3>2, <3>3, <3>4, <3>5, <3>6, <3>7, <1>1, <1>4, HolderStep
  <2>. QED
    BY <1>3, <1>7, <2>2, <2>3 DEF OfferAdopt
<1>8. CASE InLock(u)
  <2>1. /\ mu = u /\ settings # None /\ settings \in VersionedSettings
        /\ user[u].old \in VersionedSettings /\ v = settings.version
        /\ settings = Versioned(settings.version) /\ u # None
    BY <1>1, <1>3, <1>8, NilAssumption DEF FeedInv, MuOK, CallOK, ClientOK
  <2>2. own /\ snapshot # None => snapshot.seq <= conn.lastSeq
    BY DEF FeedInv, SeqOK
  <2>3. CASE OfferSignal(u)
    <3>1. /\ user[u].pc = "signal"
          /\ UNCHANGED <<settings, snapshot, done, conn, stray, withdrawn, own, lost>>
          /\ reconnect' \in BOOLEAN
      BY <2>3 DEF OfferSignal
    <3>2. snapshot # None => snapshot.buffer = user[u].old.buffer
      BY <3>1 DEF FeedInv, ShapeOK
    <3>3. settings' = Versioned(settings'.version)
      BY <2>1, <3>1 DEF Versioned
    <3>4. CASE /\ settings.buffer = user[u].old.buffer /\ Finish(u, v) /\ mu' = None
      BY <2>1, <2>2, <3>1, <3>2, <3>3, <3>4, <1>1, <1>5, HolderStep DEF Finish
    <3>5. CASE /\ user' = [user EXCEPT ![u].pc = "reshape"] /\ UNCHANGED <<mu, newest>>
      <4>1. PICK r : r = [user[u] EXCEPT !.pc = "reshape"]
        OBVIOUS
      <4>2. r \in Call /\ r.pc = "reshape" /\ r.old = user[u].old /\ r.version = v
        BY <4>1, <1>2, <1>3 DEF Call
      <4>3. user' = [user EXCEPT ![u] = r]
        BY <3>5, <4>1, <1>1
      <4>. QED
        BY <2>1, <2>2, <3>1, <3>2, <3>3, <3>5, <4>2, <4>3, <1>1, <1>4, HolderStep
    <3>. QED
      BY <2>3, <3>4, <3>5, <1>3 DEF OfferSignal
  <2>4. CASE OfferLoad(u)
    <3>1. UNCHANGED <<settings, snapshot, reconnect, done, conn, stray, withdrawn, own, lost>>
      BY <2>4 DEF OfferLoad
    <3>2. settings' = Versioned(settings'.version)
      BY <2>1, <3>1 DEF Versioned
    <3>3. CASE snapshot = None /\ Finish(u, v) /\ mu' = None
      BY <2>1, <2>2, <3>1, <3>2, <3>3, <1>1, <1>5, HolderStep DEF Finish
    <3>4. CASE /\ snapshot # None /\ UNCHANGED <<mu, newest>>
               /\ user' = [user EXCEPT ![u].pc = "store", ![u].loaded = snapshot]
      <4>1. PICK r : r = [user[u] EXCEPT !.pc = "store", !.loaded = snapshot]
        OBVIOUS
      <4>2. r \in Call /\ r.pc = "store" /\ r.old = user[u].old /\ r.version = v
            /\ r.loaded = snapshot
        BY <4>1, <1>1, <1>2, <1>3 DEF Call
      <4>3. user' = [user EXCEPT ![u] = r]
        BY <3>4, <4>1, <1>1
      <4>. QED
        BY <2>1, <2>2, <3>1, <3>2, <3>4, <4>2, <4>3, <1>1, <1>4, HolderStep
    <3>. QED
      BY <2>4, <3>3, <3>4, <1>3 DEF OfferLoad
  <2>5. CASE OfferStore(u)
    <3>1. /\ user[u].pc = "store" /\ mu' = None /\ Finish(u, v)
          /\ UNCHANGED <<settings, reconnect, done, conn, stray, withdrawn, own, lost>>
          /\ snapshot' = [user[u].loaded EXCEPT !.buffer = settings.buffer]
      BY <2>5, <1>3 DEF OfferStore
    <3>2. settings' = Versioned(settings'.version)
      BY <2>1, <3>1 DEF Versioned
    <3>3. user[u].loaded \in Snapshot /\ settings.buffer \in Buffers
      BY <2>1, <3>1 DEF FeedInv, CallOK, VersionedSettings
    <3>4. /\ snapshot' \in Snapshot /\ snapshot'.buffer = settings.buffer
          /\ snapshot'.seq = user[u].loaded.seq
      BY <3>1, <3>3 DEF Snapshot
    <3>5. own => snapshot'.seq <= conn.lastSeq
      BY <3>1, <3>4 DEF FeedInv, SeqOK
    <3>. QED
      BY <2>1, <3>1, <3>2, <3>4, <3>5, <1>1, <1>5, HolderStep DEF Finish
  <2>. QED
    BY <1>8, <2>3, <2>4, <2>5 DEF OfferStep, AcquireStore, OfferAdopt, InLock
<1>. QED
  BY <1>6, <1>7, <1>8 DEF OfferStep, OfferSignal, OfferLoad, OfferStore, InLock

LEMMA FeedNext == FeedInv /\ [Next]_vars => FeedInv'
<1> SUFFICES ASSUME FeedInv, [Next]_vars PROVE FeedInv'
  OBVIOUS
<1>1. /\ conn \in Connection /\ reconnect \in BOOLEAN /\ done \in BOOLEAN
      /\ stray \in BOOLEAN /\ conn.lastSeq \in Nat
      /\ conn.pc = "publish" => conn.lastSeq \in Seqs
      /\ settings \in VersionedSettings \cup {None} /\ own \in BOOLEAN
      /\ lost \in BOOLEAN
  BY DEF FeedInv, TypeOK, Connection, Seqs, PublishOK
<1>2. ASSUME NEW u \in Users, NEW v \in Versions, AcquireHit(u, v) PROVE FeedInv'
  BY <1>2, OfferBeginsStep DEF AcquireHit, InLock
<1>3. ASSUME NEW u \in Users, NEW v \in Versions, AcquireMiss(u, v) PROVE FeedInv'
  <2>1. PICK r : r = [NoCall EXCEPT !.pc = "create", !.version = v]
    OBVIOUS
  <2>2. r \in Call /\ r.pc = "create" /\ r.version = v
    BY <2>1 DEF NoCall, Call
  <2>3. newest' \in {0} \cup Versions /\ ~InLock(u)
    BY <1>3 DEF AcquireMiss, history, FeedInv, TypeOK, InLock
  <2>. QED
    BY <1>3, <2>1, <2>2, <2>3, OutsideStep DEF AcquireMiss, history
<1>4. ASSUME NEW u \in Users, OfferStep(u) PROVE FeedInv'
  BY <1>4, UserStep
<1>5. CASE \/ SessionRefused \/ SessionStarts \/ DialFails \/ ConnectionDrops
           \/ WaitDone \/ WaitTimer \/ PingStarts \/ PingSent \/ PingFails
           \/ PingerCloses
  <2>1. UNCHANGED <<client, user, stray, withdrawn, own, newest>> /\ lost' \in BOOLEAN
    BY <1>1, <1>5 DEF SessionRefused, SessionStarts, DialFails, ConnectionDrops, WaitDone,
       WaitTimer, PingStarts, PingSent, PingFails, PingerCloses, history
  <2>2. SessionStarts => settings.token \in Tokens
    <3>1. SessionStarts => settings # None
      BY DEF SessionStarts, At, FeedInv, ClientOK
    <3>. QED
      BY <3>1, <1>1 DEF VersionedSettings
  <2>3. conn' \in Connection
    BY <1>1, <1>5, <2>2 DEF SessionRefused, SessionStarts, DialFails, ConnectionDrops,
       WaitDone, WaitTimer, PingStarts, PingSent, PingFails, PingerCloses, Connection
  <2>4. /\ conn'.lastSeq = conn.lastSeq
        /\ conn'.pc # "none" => conn.pc # "none"
        /\ conn'.pc = "publish" => conn.pc = "publish"
    BY <1>1, <1>5 DEF SessionRefused, SessionStarts, DialFails, ConnectionDrops,
       WaitDone, WaitTimer, PingStarts, PingSent, PingFails, PingerCloses, Connection, At
  <2>. QED
    <3>1. /\ UNCHANGED <<settings, snapshot, mu, user, withdrawn, newest>>
          /\ own' = own
      BY <2>1 DEF client, history
    <3>2. /\ reconnect' \in BOOLEAN /\ done' \in BOOLEAN /\ stray' \in BOOLEAN
          /\ lost' \in BOOLEAN
      BY <1>1, <2>1 DEF client, history
    <3>3. own' \in BOOLEAN /\ (own' => own)
      BY <1>1, <3>1
    <3>. QED
      BY <1>1, <2>1, <2>3, <2>4, <3>1, <3>2, <3>3, ConnectionStep
<1>6. CASE DialSucceeds
  <2>1. /\ UNCHANGED <<client, user, stray, withdrawn, newest, lost>> /\ own' = FALSE
        /\ conn' = [conn EXCEPT !.pc = "read", !.open = TRUE, !.rotated = FALSE,
                                !.lastSeq = 0, !.pinger = "select"]
        /\ conn.pc = "dial"
    BY <1>6 DEF DialSucceeds, At
  <2>2. conn' \in Connection /\ conn'.pc = "read"
    BY <1>1, <2>1 DEF Connection
  <2>. QED
    BY <1>1, <2>1, <2>2, ConnectionStep DEF client
<1>7. CASE SessionEnds
  <2>1. /\ UNCHANGED <<client, user, history>> /\ conn.pc = "read" /\ stray' \in BOOLEAN
    BY <1>7 DEF SessionEnds, At
  <2>2. PICK next \in {"start", "wait"} :
           conn' = [conn EXCEPT !.pc = next, !.pinger = "none"]
    BY <1>7 DEF SessionEnds
  <2>3. conn' \in Connection /\ conn'.lastSeq = conn.lastSeq /\ conn'.pc # "publish"
    BY <1>1, <2>2 DEF Connection
  <2>. QED
    <3>1. /\ UNCHANGED <<settings, snapshot, mu, user, withdrawn, newest>>
          /\ own' = own
      BY <2>1 DEF client, history
    <3>2. /\ reconnect' \in BOOLEAN /\ done' \in BOOLEAN /\ stray' \in BOOLEAN
          /\ lost' \in BOOLEAN
      BY <1>1, <2>1 DEF client, history
    <3>3. own' \in BOOLEAN /\ (own' => own)
      BY <1>1, <3>1
    <3>. QED
      BY <1>1, <2>1, <2>3, <3>1, <3>2, <3>3, ConnectionStep
<1>8. CASE WaitSignal \/ PingerRotates
  <2>1. /\ UNCHANGED <<settings, snapshot, mu, done, user, stray, history>>
        /\ reconnect' = FALSE
    BY <1>8 DEF WaitSignal, PingerRotates
  <2>2. /\ conn' \in Connection /\ conn'.lastSeq = conn.lastSeq
        /\ conn'.pc # "none" => conn.pc # "none"
        /\ conn'.pc = "publish" => conn.pc = "publish"
    BY <1>1, <1>8 DEF WaitSignal, PingerRotates, Connection, At
  <2>. QED
    <3>1. /\ UNCHANGED <<settings, snapshot, mu, user, withdrawn, newest>>
          /\ own' = own
      BY <2>1 DEF history
    <3>2. /\ reconnect' \in BOOLEAN /\ done' \in BOOLEAN /\ stray' \in BOOLEAN
          /\ lost' \in BOOLEAN
      BY <1>1, <2>1 DEF history
    <3>3. own' \in BOOLEAN /\ (own' => own)
      BY <1>1, <3>1
    <3>. QED
      BY <1>1, <2>1, <2>2, <3>1, <3>2, <3>3, ConnectionStep
<1>9. CASE HandleClear
  BY <1>1, <1>9, ClearStep DEF HandleClear, Reading, At
<1>10. ASSUME NEW seq \in Seqs, HandleForeign(seq) PROVE FeedInv'
  <2>1. /\ seq > conn.lastSeq /\ conn' = [conn EXCEPT !.lastSeq = seq] /\ Cleared
        /\ conn.pc = "read"
    BY <1>10 DEF HandleForeign, Reading, At
  <2>2. conn' \in Connection /\ conn'.lastSeq = seq /\ conn'.pc = conn.pc /\ seq \in Nat
    BY <1>1, <2>1 DEF Connection, Seqs
  <2>. QED
    BY <1>1, <2>1, <2>2, ClearStep
<1>11. ASSUME NEW seq \in Seqs, HandleSnapshot(seq) PROVE FeedInv'
  <2>1. /\ seq > conn.lastSeq /\ conn.pc = "read"
        /\ conn' = [conn EXCEPT !.lastSeq = seq, !.pc = "publish"]
        /\ UNCHANGED <<client, user, stray, history>>
    BY <1>11 DEF HandleSnapshot, Reading, At
  <2>2. conn' \in Connection /\ conn'.lastSeq = seq /\ seq \in Nat
    <3>1. conn' \in Connection /\ conn'.lastSeq = seq
      BY <1>1, <2>1 DEF Connection
    <3>2. seq \in Nat
      BY DEF Seqs
    <3>. QED
      BY <3>1, <3>2
  <2>. QED
    <3>1. /\ UNCHANGED <<settings, snapshot, mu, user, withdrawn, newest>>
          /\ own' = own
      BY <2>1 DEF client, history
    <3>2. /\ reconnect' \in BOOLEAN /\ done' \in BOOLEAN /\ stray' \in BOOLEAN
          /\ lost' \in BOOLEAN
      BY <1>1, <2>1 DEF client, history
    <3>3. own' \in BOOLEAN /\ (own' => own)
      BY <1>1, <3>1
    <3>. QED
      BY <1>1, <2>1, <2>2, <3>1, <3>2, <3>3, ConnectionStep
<1>12. CASE Publish
  <2>1. /\ conn.pc = "publish" /\ mu = None
        /\ snapshot' = [seq |-> conn.lastSeq, buffer |-> settings.buffer]
        /\ conn' = [conn EXCEPT !.pc = "read"]
        /\ withdrawn' = FALSE /\ own' = TRUE
        /\ UNCHANGED <<settings, mu, reconnect, done, user, stray, newest, lost>>
    BY <1>12 DEF Publish, At
  <2>2. settings # None /\ settings.buffer \in Buffers
    BY <1>1, <2>1 DEF FeedInv, ClientOK, VersionedSettings
  <2>3. conn.lastSeq \in Seqs
    BY <2>1 DEF FeedInv, PublishOK
  <2>4. conn' \in Connection /\ conn'.lastSeq = conn.lastSeq /\ conn'.pc = "read"
    BY <1>1, <2>1 DEF Connection
  <2>5. /\ snapshot' \in Snapshot /\ snapshot'.seq = conn.lastSeq
        /\ snapshot'.buffer = settings.buffer
    BY <2>1, <2>2, <2>3 DEF Snapshot
  <2>6. \A w \in Users : ~InLock(w) /\ ~InLock(w)'
    BY <2>1, NilAssumption DEF FeedInv, MuOK, InLock
  <2>7. TypeOK'
    BY <2>1, <2>4, <2>5 DEF FeedInv, TypeOK
  <2>8. MuOK' /\ CallOK' /\ ClientOK'
    BY <2>1, <2>2 DEF FeedInv, MuOK, CallOK, ClientOK, InLock, Versioned
  <2>9. ShapeOK' /\ SeqOK' /\ PublishOK'
    BY <1>1, <2>1, <2>4, <2>5, <2>6
       DEF ShapeOK, SnapshotShaped, SeqOK, InLock, PublishOK
  <2>. QED
    BY <2>7, <2>8, <2>9 DEF FeedInv
<1>13. CASE Discard
  <2>1. /\ conn.pc = "publish" /\ conn' = [conn EXCEPT !.pc = "read"] /\ Cleared
    BY <1>13 DEF Discard, At
  <2>2. conn' \in Connection /\ conn'.lastSeq = conn.lastSeq /\ conn'.pc = "read"
    BY <1>1, <2>1 DEF Connection
  <2>. QED
    BY <1>1, <2>1, <2>2, ClearStep
<1>14. CASE StrayExits \/ StrayTakesSignal \/ Close
  <2>1. /\ UNCHANGED <<settings, snapshot, mu, user, conn, withdrawn, own, newest>>
        /\ reconnect' \in BOOLEAN /\ stray' \in BOOLEAN /\ done' \in BOOLEAN
        /\ lost' \in BOOLEAN
    BY <1>1, <1>14 DEF StrayExits, StrayTakesSignal, Close, client, history
  <2>. QED
    <3>1. /\ UNCHANGED <<settings, snapshot, mu, user, withdrawn, newest>>
          /\ own' = own
      BY <2>1 DEF history
    <3>2. /\ reconnect' \in BOOLEAN /\ done' \in BOOLEAN /\ stray' \in BOOLEAN
          /\ lost' \in BOOLEAN
      BY <1>1, <2>1 DEF history
    <3>3. own' \in BOOLEAN /\ (own' => own)
      BY <1>1, <3>1
    <3>. QED
      BY <1>1, <2>1, <3>1, <3>2, <3>3, ConnectionStep
<1>15. CASE UNCHANGED vars
  <2>1. UNCHANGED <<settings, snapshot, mu, user, withdrawn, newest, conn, reconnect,
                    done, stray, own, lost>>
    BY <1>15 DEF vars, client, history
  <2>2. /\ own' \in BOOLEAN /\ reconnect' \in BOOLEAN /\ done' \in BOOLEAN
        /\ stray' \in BOOLEAN /\ lost' \in BOOLEAN
    BY <1>1, <2>1
  <2>. QED
    BY <1>1, <2>1, <2>2, ConnectionStep
<1>. QED
  BY <1>2, <1>3, <1>4, <1>5, <1>6, <1>7, <1>8, <1>9, <1>10, <1>11, <1>12, <1>13, <1>14,
     <1>15 DEF Next

(* The inductive invariant of the client, its users and its connection. *)
THEOREM FeedInvariant == Spec => []FeedInv
BY FeedInit, FeedNext, PTL DEF Spec

(* Every operation of the client keeps the types of its fields. *)
THEOREM FeedTypeCorrect == Spec => []TypeOK
<1>1. FeedInv => TypeOK
  BY DEF FeedInv
<1>. QED
  BY <1>1, FeedInvariant, PTL

(* Whenever no offer is inside the lock, the cached snapshot has the       *)
(* buffer of the current settings, for any number of users that offer      *)
(* settings while frames arrive.                                           *)
THEOREM AlwaysShaped == Spec => []SnapshotShaped
<1>1. FeedInv => SnapshotShaped
  BY DEF FeedInv, ShapeOK
<1>. QED
  BY <1>1, FeedInvariant, PTL

(* Over one connection the cached snapshot never goes back to an older     *)
(* frame, not even when offer stores what it loaded before.                *)
THEOREM NeverBack == Spec => NeverOlder
<1> DEFINE Onward == snapshot # None /\ snapshot' # None /\ own /\ own'
                        => snapshot'.seq >= snapshot.seq
<1>1. ASSUME FeedInv, [Next]_vars PROVE [Onward]_vars
  <2>1. snapshot # None => snapshot.seq \in Nat
    BY <1>1 DEF FeedInv, TypeOK, Snapshot, Seqs
  <2>2. CASE UNCHANGED snapshot
    BY <2>1, <2>2
  <2>3. CASE snapshot' = None
    BY <2>3
  <2>4. CASE Publish
    <3>1. snapshot'.seq = conn.lastSeq /\ conn.lastSeq \in Nat
      BY <1>1, <2>4 DEF Publish, FeedInv, TypeOK, Connection, Seqs
    <3>. QED
      BY <1>1, <2>1, <3>1 DEF FeedInv, SeqOK
  <2>5. ASSUME NEW u \in Users, OfferStore(u) PROVE [Onward]_vars
    <3>1. /\ user[u].pc = "store" /\ user[u].loaded \in Snapshot
          /\ snapshot' = [user[u].loaded EXCEPT !.buffer = settings.buffer]
      BY <1>1, <2>5 DEF OfferStore, FeedInv, CallOK
    <3>2. snapshot'.seq = user[u].loaded.seq
      BY <3>1 DEF Snapshot
    <3>3. snapshot # None => snapshot = user[u].loaded
      BY <1>1, <3>1 DEF FeedInv, SeqOK
    <3>. QED
      BY <2>1, <3>2, <3>3
  <2>. QED
    BY <1>1, <2>2, <2>3, <2>4, <2>5 DEF Next, OfferStep, AcquireHit, AcquireMiss,
       AcquireStore, OfferAdopt, OfferSignal, OfferLoad, SessionRefused, SessionStarts,
       DialFails, DialSucceeds, ConnectionDrops, SessionEnds, WaitDone, WaitSignal,
       WaitTimer, HandleClear, HandleForeign, HandleSnapshot, Discard, Cleared,
       PingStarts, PingSent, PingFails, PingerRotates, PingerCloses, StrayExits,
       StrayTakesSignal, Close, client, vars
<1>. QED
  BY <1>1, FeedInvariant, PTL DEF Spec, NeverOlder

-----------------------------------------------------------------------------
(* Freshness, whatever the settings written at each version: offer does    *)
(* not raise the version for settings it already has, so the newest        *)
(* version offered may be ahead of that of the settings, if an earlier one *)
(* carried the same settings.                                              *)

Known(v) ==
    \/ v <= settings.version
    \/ \E c \in Versions : c <= settings.version /\ SameSettings(c, v)

FreshInv ==
    /\ settings = None => newest = 0
    /\ settings # None => Known(newest)
    /\ settings # None /\ mu = None => settings.version <= newest

(* Settings that offer ignores are known. *)
LEMMA NotFresherKnown ==
    ASSUME FeedInv, settings # None, NEW v \in Versions, NotFresher(v)
    PROVE  Known(v)
<1>1. settings \in VersionedSettings /\ settings = Versioned(settings.version)
  BY DEF FeedInv, TypeOK, ClientOK
<1>2. PICK w \in Versions : w = settings.version
  BY <1>1 DEF VersionedSettings
<1>3. settings.token = SettingsAt[w].token /\ settings.buffer = SettingsAt[w].buffer
  BY <1>1, <1>2, VersionedTyped
<1>4. CASE settings.token = SettingsAt[v].token /\ settings.buffer = SettingsAt[v].buffer
  <2>1. SameSettings(w, v) /\ w <= settings.version
    BY <1>2, <1>3, <1>4 DEF SameSettings, Versions
  <2>. QED
    BY <2>1 DEF Known
<1>5. CASE v <= settings.version
  BY <1>5 DEF Known
<1>. QED
  BY <1>4, <1>5 DEF NotFresher

(* What an offer that returns leaves known, while the settings stay. *)
LEMMA ReturnKnown ==
    ASSUME FeedInv, FreshInv, settings # None, NEW v \in Versions, Known(v),
           newest' = Larger(newest, v), UNCHANGED settings,
           mu' = None => v = settings.version \/ mu = None
    PROVE  FreshInv'
<1>1. newest \in Nat /\ v \in Nat /\ settings.version \in Nat
  BY DEF FeedInv, TypeOK, VersionedSettings, Versions
<1>2. newest' >= newest /\ newest' >= v /\ newest' \in {newest, v}
  BY <1>1 DEF Larger
<1>3. Known(newest')
  BY <1>2 DEF FreshInv
<1>4. Known(newest)'
  BY <1>3 DEF Known, SameSettings
<1>5. mu' = None => settings.version <= newest'
  BY <1>1, <1>2 DEF FreshInv
<1>. QED
  BY <1>4, <1>5 DEF FreshInv

LEMMA FreshNext == FeedInv /\ FreshInv /\ [Next]_vars => FreshInv'
<1> SUFFICES ASSUME FeedInv, FreshInv, [Next]_vars PROVE FreshInv'
  OBVIOUS
<1>1. newest \in Nat /\ (settings # None => settings.version \in Nat)
  BY DEF FeedInv, TypeOK, VersionedSettings, Versions
<1>2. CASE UNCHANGED <<settings, mu, newest>>
  BY <1>2 DEF FreshInv, Known, SameSettings
<1>3. ASSUME NEW u \in Users, NEW v \in Versions, OfferBegins(u, v), UNCHANGED mu
      PROVE  FreshInv'
  <2>1. settings # None /\ settings' = settings /\ v \in Nat
    BY <1>3 DEF OfferBegins, Versions
  <2>2. CASE NotFresher(v) /\ newest' = Larger(newest, v)
    <3>1. Known(v)
      BY <1>3, <2>1, <2>2, NotFresherKnown
    <3>. QED
      BY <1>3, <2>1, <2>2, <3>1, ReturnKnown
  <2>3. CASE newest' = newest
    BY <1>2, <1>3, <2>1, <2>3
  <2>. QED
    BY <1>3, <2>2, <2>3 DEF OfferBegins, Finish
<1>4. ASSUME NEW u \in Users, OfferStep(u) PROVE FreshInv'
  <2>1. PICK v : v = user[u].version
    OBVIOUS
  <2>2. v \in Versions /\ v \in Nat
    BY <1>4, <2>1 DEF OfferStep, AcquireStore, OfferAdopt, OfferSignal, OfferLoad,
       OfferStore, FeedInv, CallOK, Versions
  <2>3. CASE AcquireStore(u)
    <3>1. CASE OfferBegins(u, v)
      BY <1>3, <2>2, <2>3, <3>1 DEF AcquireStore
    <3>2. CASE Started(u)
      <4>1. /\ settings = None /\ newest = 0 /\ newest' = Larger(newest, v)
            /\ settings' = Versioned(v)
        BY <2>1, <3>2 DEF Started, Finish, FreshInv
      <4>2. settings'.version = v /\ settings' # None
        BY <2>2, <4>1, VersionedTyped
      <4>3. newest' = v
        BY <2>2, <4>1 DEF Larger, Versions
      <4>. QED
        BY <2>2, <4>2, <4>3 DEF FreshInv, Known
    <3>. QED
      BY <2>1, <2>3, <3>1, <3>2 DEF AcquireStore
  <2>4. CASE OfferAdopt(u)
    <3>1. settings # None /\ mu = None
      BY <2>4 DEF OfferAdopt, FeedInv, CallOK
    <3>2. CASE /\ NotFresher(v) /\ newest' = Larger(newest, v)
               /\ UNCHANGED <<settings, mu>>
      <4>1. Known(v)
        BY <2>2, <3>1, <3>2, NotFresherKnown
      <4>. QED
        BY <2>2, <3>1, <3>2, <4>1, ReturnKnown
    <3>3. CASE ~NotFresher(v) /\ settings' = Versioned(v) /\ mu' = u /\ newest' = newest
      <4>1. settings'.version = v /\ settings' # None /\ mu' # None
        BY <2>2, <3>3, VersionedTyped, NilAssumption
      <4>2. v > settings.version
        BY <1>1, <2>2, <3>1, <3>3 DEF NotFresher
      <4>3. CASE newest <= settings.version
        BY <1>1, <2>2, <3>1, <3>3, <4>1, <4>2, <4>3 DEF FreshInv, Known
      <4>4. ASSUME NEW c \in Versions, c <= settings.version, SameSettings(c, newest)
            PROVE  FreshInv'
        <5>1. c <= v
          BY <1>1, <2>2, <3>1, <4>2, <4>4 DEF Versions
        <5>. QED
          BY <3>3, <4>1, <4>4, <5>1 DEF FreshInv, Known, SameSettings
      <4>. QED
        BY <3>1, <4>3, <4>4 DEF FreshInv, Known
    <3>. QED
      BY <2>1, <2>4, <3>2, <3>3 DEF OfferAdopt, Finish
  <2>5. CASE InLock(u)
    <3>1. settings # None /\ v = settings.version
      BY <2>1, <2>5 DEF FeedInv, CallOK
    <3>2. CASE UNCHANGED settings /\ newest' = Larger(newest, v)
      <4>1. Known(v)
        BY <2>2, <3>1 DEF Known
      <4>. QED
        BY <2>2, <3>1, <3>2, <4>1, ReturnKnown
    <3>. QED
      BY <1>2, <1>4, <2>1, <2>5, <3>2 DEF OfferStep, AcquireStore, OfferAdopt, OfferSignal,
         OfferLoad, OfferStore, Finish, InLock
  <2>. QED
    BY <1>4, <2>3, <2>4, <2>5 DEF OfferStep, OfferSignal, OfferLoad, OfferStore, InLock
<1>. QED
  BY <1>2, <1>3, <1>4 DEF Next, AcquireHit, AcquireMiss, SessionRefused, SessionStarts,
     DialFails, DialSucceeds, ConnectionDrops, SessionEnds, WaitDone, WaitSignal,
     WaitTimer, HandleClear, HandleForeign, HandleSnapshot, Publish, Discard, Cleared,
     PingStarts, PingSent, PingFails, PingerRotates, PingerCloses, StrayExits,
     StrayTakesSignal, Close, client, history, vars

(* Once the offers have returned the client runs on the freshest settings  *)
(* any of them carried, in whatever order they were offered and whatever   *)
(* the settings written over time; only a write that went back to earlier  *)
(* settings may leave it on those of a write in between.                   *)
THEOREM FreshestAdopted == Spec => []FreshestSettings
<1>1. Init => FreshInv
  BY DEF Init, FreshInv
<1>2. FeedInv /\ FreshInv => FreshestSettings
  <2> SUFFICES ASSUME FeedInv, FreshInv, Quiet, newest # 0
               PROVE  SameSettings(settings.version, newest) \/ ChangedBack
    BY DEF FreshestSettings
  <2>1. settings # None /\ mu = None
    BY DEF FreshInv, FeedInv, MuOK, InLock, TypeOK, Quiet
  <2>2. PICK w \in Versions : w = settings.version
    BY <2>1 DEF FeedInv, TypeOK, VersionedSettings
  <2>3. w \in Nat /\ newest \in Nat /\ w <= newest
    BY <2>1, <2>2 DEF FreshInv, FeedInv, TypeOK, Versions
  <2>4. CASE newest <= w
    <3>1. newest = w
      BY <2>3, <2>4
    <3>. QED
      BY <2>2, <3>1 DEF SameSettings
  <2>5. ASSUME NEW c \in Versions, c <= w, SameSettings(c, newest), ~(newest <= w)
        PROVE  SameSettings(settings.version, newest) \/ ChangedBack
    <3>1. CASE c = w
      BY <2>2, <2>5, <3>1
    <3>2. CASE c # w
      <4>1. c < settings.version /\ settings.version < newest
        BY <2>2, <2>3, <2>5, <3>2 DEF Versions
      <4>. QED
        BY <2>5, <4>1 DEF ChangedBack
    <3>. QED
      BY <3>1, <3>2
  <2>. QED
    BY <2>1, <2>2, <2>4, <2>5 DEF FreshInv, Known
<1>. QED
  BY <1>1, <1>2, FeedInvariant, FreshNext, PTL DEF Spec
=============================================================================
