------------------------------ MODULE NemoFeed ------------------------------
(***************************************************************************)
(* The live price feed of pkg/liquidity-source/nemo-prop/feed.go: one      *)
(* feedClient per proxy and process, shared by every tracker and           *)
(* simulator.                                                              *)
(*                                                                         *)
(*   users        acquireFeed and offer: pool states carry feed settings   *)
(*                with the version (time) they were written at, and reach  *)
(*                the process late, repeatedly and out of order;           *)
(*   connection   run, session and handle: the goroutine that dials,       *)
(*                reads frames and publishes snapshots;                    *)
(*   pinger       the goroutine of each session that waits on the ping     *)
(*                timer, the reconnect channel, done and stop.             *)
(*                                                                         *)
(* Delays are abstracted: a back-off, a ping interval or a read deadline   *)
(* may end at any moment.                                                  *)
(***************************************************************************)
EXTENDS Integers

CONSTANTS
    Users,          \* goroutines of trackers and simulators
    MaxVersion,     \* bound: pool states are written at versions 1..MaxVersion
    SettingsAt,     \* the settings written at each version: token and buffer
    MaxSeq,         \* bound: the sequence numbers of a connection's frames
    None            \* nil

Versions == 1..MaxVersion

Seqs == 1..MaxSeq

Tokens == {SettingsAt[v].token : v \in Versions}

Buffers == {SettingsAt[v].buffer : v \in Versions}

VersionedSettings == [token : Tokens, buffer : Buffers, version : Versions]

Snapshot == [seq : Seqs, buffer : Buffers]

ASSUME FeedAssumption ==
    /\ MaxVersion \in Nat \ {0}
    /\ MaxSeq \in Nat \ {0}

ASSUME NilAssumption ==
    /\ None \notin Users
    /\ None \notin VersionedSettings
    /\ None \notin Snapshot

VARIABLES
    settings,   \* feedClient.settings; None before the client exists
    snapshot,   \* feedClient.snapshot
    mu,         \* feedClient.mu: the user that holds it across steps
    reconnect,  \* feedClient.reconnect: the channel holds a signal
    done,       \* feedClient.done is closed
    user,       \* where each user is in acquireFeed and offer
    conn,       \* the connection goroutine, its session and its pinger
    stray,      \* pingers outlived their sessions
    withdrawn,  \* history: the last frame withdrew the state or was invalid
    own,        \* history: the snapshot came over the current connection
    newest,     \* history: the highest version whose offer has returned
    lost        \* history: a signal was taken by the pinger of an ended session
                \* and no session has read the settings since

client == <<settings, snapshot, mu, reconnect, done>>

history == <<withdrawn, own, newest, lost>>

vars == <<client, user, conn, stray, history>>

(* A call of acquireFeed: the version it offers, the settings it replaced, *)
(* the snapshot it is reshaping.                                           *)
Call == [pc : {"idle", "create", "offer", "signal", "reshape", "store"},
         version : Versions \cup {None},
         old : VersionedSettings \cup {None},
         loaded : Snapshot \cup {None}]

NoCall == [pc |-> "idle", version |-> None, old |-> None, loaded |-> None]

(* run and session: the token dialled, lastSeq, whether the connection is  *)
(* open, the rotated flag, and the session's pinger.                       *)
Connection == [pc : {"none", "start", "dial", "read", "publish", "wait", "exited"},
               token : Tokens \cup {None},
               lastSeq : {0} \cup Seqs,
               open : BOOLEAN,
               rotated : BOOLEAN,
               pinger : {"none", "select", "tick"}]

NoConnection == [pc |-> "none", token |-> None, lastSeq |-> 0, open |-> FALSE,
                 rotated |-> FALSE, pinger |-> "none"]

Versioned(v) == [token |-> SettingsAt[v].token, buffer |-> SettingsAt[v].buffer,
                 version |-> v]

Larger(a, b) == IF a > b THEN a ELSE b

-----------------------------------------------------------------------------
(* acquireFeed and offer *)

(* offer's test, made without the lock and again with it: the settings are *)
(* the current ones, or not from a fresher pool state.                     *)
NotFresher(v) ==
    \/ settings.token = SettingsAt[v].token /\ settings.buffer = SettingsAt[v].buffer
    \/ v <= settings.version

(* acquireFeed returns to its caller. *)
Finish(u, v) ==
    /\ user' = [user EXCEPT ![u] = NoCall]
    /\ newest' = Larger(newest, v)

(* The lock-free test of offer, on a client that exists. *)
OfferBegins(u, v) ==
    /\ settings # None
    /\ \/ NotFresher(v) /\ Finish(u, v)
       \/ /\ ~NotFresher(v)
          /\ user' = [user EXCEPT ![u] = [NoCall EXCEPT !.pc = "offer", !.version = v]]
          /\ UNCHANGED newest
    /\ UNCHANGED <<settings, conn>>

(* feeds.Load finds the client. *)
AcquireHit(u, v) ==
    /\ user[u].pc = "idle"
    /\ OfferBegins(u, v)
    /\ UNCHANGED <<snapshot, mu, reconnect, done, stray, withdrawn, own, lost>>

(* feeds.Load finds none. *)
AcquireMiss(u, v) ==
    /\ user[u].pc = "idle"
    /\ settings = None
    /\ user' = [user EXCEPT ![u] = [NoCall EXCEPT !.pc = "create", !.version = v]]
    /\ UNCHANGED <<client, conn, stray, history>>

(* LoadOrStore: the first user starts the connection, a later one offers   *)
(* its settings to the client that won.                                    *)
Started(u) ==
    /\ settings = None
    /\ settings' = Versioned(user[u].version)
    /\ conn' = [conn EXCEPT !.pc = "start"]
    /\ Finish(u, user[u].version)

AcquireStore_LoserReturns(u) ==
    /\ user[u].pc = "create"
    /\ \/ Started(u)
       \/ settings # None /\ Finish(u, user[u].version) /\ UNCHANGED <<settings, conn>>
    /\ UNCHANGED <<snapshot, mu, reconnect, done, stray, withdrawn, own, lost>>

AcquireStore(u) ==
    /\ user[u].pc = "create"
    /\ Started(u) \/ OfferBegins(u, user[u].version)
    /\ UNCHANGED <<snapshot, mu, reconnect, done, stray, withdrawn, own, lost>>

(* Lock, second test, new settings stored. *)
OfferAdopt(u) ==
    /\ user[u].pc = "offer"
    /\ mu = None
    /\ \/ /\ NotFresher(user[u].version)
          /\ Finish(u, user[u].version)
          /\ UNCHANGED <<settings, mu>>
       \/ /\ ~NotFresher(user[u].version)
          /\ settings' = Versioned(user[u].version)
          /\ mu' = u
          /\ user' = [user EXCEPT ![u].pc = "signal", ![u].old = settings]
          /\ UNCHANGED newest
    /\ UNCHANGED <<snapshot, reconnect, done, conn, stray, withdrawn, own, lost>>

(* A new token signals the connection; the channel holds one signal.       *)
(* Without a new buffer the offer is over.                                 *)
OfferSignal_NoSignal(u) ==
    /\ user[u].pc = "signal"
    /\ \/ /\ settings.buffer = user[u].old.buffer
          /\ Finish(u, user[u].version)
          /\ mu' = None
       \/ /\ settings.buffer # user[u].old.buffer
          /\ user' = [user EXCEPT ![u].pc = "reshape"]
          /\ UNCHANGED <<mu, newest>>
    /\ UNCHANGED <<settings, snapshot, reconnect, done, conn, stray, withdrawn, own, lost>>

OfferSignal_NoReshape(u) ==
    /\ user[u].pc = "signal"
    /\ reconnect' = (reconnect \/ settings.token # user[u].old.token)
    /\ Finish(u, user[u].version)
    /\ mu' = None
    /\ UNCHANGED <<settings, snapshot, done, conn, stray, withdrawn, own, lost>>

OfferSignal(u) ==
    /\ user[u].pc = "signal"
    /\ reconnect' = (reconnect \/ settings.token # user[u].old.token)
    /\ \/ /\ settings.buffer = user[u].old.buffer
          /\ Finish(u, user[u].version)
          /\ mu' = None
       \/ /\ settings.buffer # user[u].old.buffer
          /\ user' = [user EXCEPT ![u].pc = "reshape"]
          /\ UNCHANGED <<mu, newest>>
    /\ UNCHANGED <<settings, snapshot, done, conn, stray, withdrawn, own, lost>>

OfferLoad(u) ==
    /\ user[u].pc = "reshape"
    /\ \/ /\ snapshot = None
          /\ Finish(u, user[u].version)
          /\ mu' = None
       \/ /\ snapshot # None
          /\ user' = [user EXCEPT ![u].pc = "store", ![u].loaded = snapshot]
          /\ UNCHANGED <<mu, newest>>
    /\ UNCHANGED <<settings, snapshot, reconnect, done, conn, stray, withdrawn, own, lost>>

(* The same frame, shaped with the new buffer, whatever happened to the    *)
(* cached snapshot since it was loaded.                                    *)
OfferStore(u) ==
    /\ user[u].pc = "store"
    /\ snapshot' = [user[u].loaded EXCEPT !.buffer = settings.buffer]
    /\ Finish(u, user[u].version)
    /\ mu' = None
    /\ UNCHANGED <<settings, reconnect, done, conn, stray, withdrawn, own, lost>>

-----------------------------------------------------------------------------
(* run and session *)

At(step) == conn.pc = step

SessionRefused ==
    /\ At("start")
    /\ done
    /\ conn' = [conn EXCEPT !.pc = "wait"]
    /\ UNCHANGED <<client, user, stray, history>>

SessionStarts ==
    /\ At("start")
    /\ ~done
    /\ conn' = [conn EXCEPT !.pc = "dial", !.token = settings.token]
    /\ lost' = FALSE
    /\ UNCHANGED <<client, user, stray, withdrawn, own, newest>>

(* The dial, or sending the subscription, fails. *)
DialFails ==
    /\ At("dial")
    /\ conn' = [conn EXCEPT !.pc = "wait"]
    /\ UNCHANGED <<client, user, stray, history>>

DialSucceeds ==
    /\ At("dial")
    /\ conn' = [conn EXCEPT !.pc = "read", !.open = TRUE, !.rotated = FALSE,
                            !.lastSeq = 0, !.pinger = "select"]
    /\ own' = FALSE
    /\ UNCHANGED <<client, user, stray, withdrawn, newest, lost>>

(* The network, the server or the read deadline ends the connection. *)
ConnectionDrops ==
    /\ conn.open
    /\ conn' = [conn EXCEPT !.open = FALSE]
    /\ UNCHANGED <<client, user, stray, history>>

(* ReadMessage fails and session returns: after a rotation run dials again *)
(* at once.  stop is closed, which ends a pinger that waits in its select; *)
(* one that is busy with a ping sees it later.                             *)
SessionEnds ==
    /\ At("read")
    /\ ~conn.open
    /\ conn' = [conn EXCEPT !.pc = IF conn.rotated THEN "start" ELSE "wait",
                            !.pinger = "none"]
    /\ stray' = (stray \/ conn.pinger = "tick")
    /\ UNCHANGED <<client, user, history>>

(* run's select: done, reconnect or the back-off timer. *)
WaitDone ==
    /\ At("wait")
    /\ done
    /\ conn' = [conn EXCEPT !.pc = "exited"]
    /\ UNCHANGED <<client, user, stray, history>>

WaitSignal ==
    /\ At("wait")
    /\ reconnect
    /\ reconnect' = FALSE
    /\ conn' = [conn EXCEPT !.pc = "start"]
    /\ UNCHANGED <<settings, snapshot, mu, done, user, stray, history>>

WaitTimer ==
    /\ At("wait")
    /\ conn' = [conn EXCEPT !.pc = "start"]
    /\ UNCHANGED <<client, user, stray, history>>

-----------------------------------------------------------------------------
(* handle *)

Reading == At("read") /\ conn.open

(* clear: the snapshot goes, and no lock is taken. *)
Cleared ==
    /\ snapshot' = None
    /\ withdrawn' = TRUE
    /\ UNCHANGED <<settings, mu, reconnect, done, user, stray, own, newest, lost>>

(* A withdrawal, or a frame that is not of the protocol. *)
HandleClear ==
    /\ Reading
    /\ Cleared
    /\ UNCHANGED conn

(* A snapshot of another chain or proxy: its sequence number counts. *)
HandleForeign(seq) ==
    /\ Reading
    /\ seq > conn.lastSeq
    /\ conn' = [conn EXCEPT !.lastSeq = seq]
    /\ Cleared

(* A snapshot with a higher sequence number; a repeated or older frame is  *)
(* ignored.                                                                *)
HandleSnapshot_AnyOrder(seq) ==
    /\ Reading
    /\ conn' = [conn EXCEPT !.lastSeq = seq, !.pc = "publish"]
    /\ UNCHANGED <<client, user, stray, history>>

HandleSnapshot(seq) ==
    /\ Reading
    /\ seq > conn.lastSeq
    /\ conn' = [conn EXCEPT !.lastSeq = seq, !.pc = "publish"]
    /\ UNCHANGED <<client, user, stray, history>>

(* Under the lock: the frame is shaped with the current buffer. *)
Publish_NoSeq ==
    /\ At("publish")
    /\ mu = None
    /\ snapshot' = [seq |-> 0, buffer |-> settings.buffer]
    /\ conn' = [conn EXCEPT !.pc = "read"]
    /\ withdrawn' = FALSE
    /\ own' = TRUE
    /\ UNCHANGED <<settings, mu, reconnect, done, user, stray, newest, lost>>

Publish ==
    /\ At("publish")
    /\ mu = None
    /\ snapshot' = [seq |-> conn.lastSeq, buffer |-> settings.buffer]
    /\ conn' = [conn EXCEPT !.pc = "read"]
    /\ withdrawn' = FALSE
    /\ own' = TRUE
    /\ UNCHANGED <<settings, mu, reconnect, done, user, stray, newest, lost>>

(* Under the lock: the frame does not validate. *)
Discard ==
    /\ At("publish")
    /\ mu = None
    /\ conn' = [conn EXCEPT !.pc = "read"]
    /\ Cleared

-----------------------------------------------------------------------------
(* The pinger *)

PingStarts ==
    /\ conn.pinger = "select"
    /\ conn' = [conn EXCEPT !.pinger = "tick"]
    /\ UNCHANGED <<client, user, stray, history>>

PingSent ==
    /\ conn.pinger = "tick"
    /\ conn' = [conn EXCEPT !.pinger = "select"]
    /\ UNCHANGED <<client, user, stray, history>>

PingFails ==
    /\ conn.pinger = "tick"
    /\ conn' = [conn EXCEPT !.pinger = "none", !.open = FALSE]
    /\ UNCHANGED <<client, user, stray, history>>

PingerRotates ==
    /\ conn.pinger = "select"
    /\ reconnect
    /\ reconnect' = FALSE
    /\ conn' = [conn EXCEPT !.pinger = "none", !.open = FALSE, !.rotated = TRUE]
    /\ UNCHANGED <<settings, snapshot, mu, done, user, stray, history>>

PingerCloses_LeavesOpen ==
    /\ conn.pinger = "select"
    /\ done
    /\ conn' = [conn EXCEPT !.pinger = "none"]
    /\ UNCHANGED <<client, user, stray, history>>

PingerCloses ==
    /\ conn.pinger = "select"
    /\ done
    /\ conn' = [conn EXCEPT !.pinger = "none", !.open = FALSE]
    /\ UNCHANGED <<client, user, stray, history>>

(* A pinger whose session is over finds stop closed; with a signal in the  *)
(* channel its select may choose that instead, and the signal is gone.     *)
(* Another such pinger may be left.                                        *)
StrayExits ==
    /\ stray
    /\ stray' = FALSE
    /\ UNCHANGED <<client, user, conn, history>>

StrayTakesSignal ==
    /\ stray
    /\ reconnect
    /\ stray' \in BOOLEAN
    /\ reconnect' = FALSE
    /\ lost' = TRUE
    /\ UNCHANGED <<settings, snapshot, mu, done, user, conn, withdrawn, own, newest>>

(* close, which only tests call. *)
Close ==
    /\ settings # None
    /\ ~done
    /\ done' = TRUE
    /\ UNCHANGED <<settings, snapshot, mu, reconnect, user, conn, stray, history>>

-----------------------------------------------------------------------------

Init ==
    /\ settings = None
    /\ snapshot = None
    /\ mu = None
    /\ reconnect = FALSE
    /\ done = FALSE
    /\ user = [u \in Users |-> NoCall]
    /\ conn = NoConnection
    /\ stray = FALSE
    /\ withdrawn = FALSE
    /\ own = FALSE
    /\ newest = 0
    /\ lost = FALSE

OfferStep(u) ==
    \/ AcquireStore(u)
    \/ OfferAdopt(u)
    \/ OfferSignal(u)
    \/ OfferLoad(u)
    \/ OfferStore(u)

Next ==
    \/ \E u \in Users, v \in Versions : AcquireHit(u, v) \/ AcquireMiss(u, v)
    \/ \E u \in Users : OfferStep(u)
    \/ SessionRefused \/ SessionStarts \/ DialFails \/ DialSucceeds
    \/ ConnectionDrops \/ SessionEnds
    \/ WaitDone \/ WaitSignal \/ WaitTimer
    \/ HandleClear
    \/ \E seq \in Seqs : HandleForeign(seq) \/ HandleSnapshot(seq)
    \/ Publish \/ Discard
    \/ PingStarts \/ PingSent \/ PingFails \/ PingerRotates \/ PingerCloses
    \/ StrayExits \/ StrayTakesSignal
    \/ Close

(* Goroutines run on and Go's mutex does not starve a waiter; a select     *)
(* that meets a ready case again and again takes it some time; a server    *)
(* dialled for ever answers.  Frames, drops, offers and close are not      *)
(* promised: a connection may last for ever.                               *)
Fairness ==
    /\ \A u \in Users : SF_vars(OfferStep(u))
    /\ WF_vars(SessionRefused \/ SessionStarts)
    /\ SF_vars(DialSucceeds)
    /\ WF_vars(SessionEnds)
    /\ SF_vars(WaitDone)
    /\ WF_vars(WaitTimer)
    /\ SF_vars(Publish \/ Discard)
    /\ WF_vars(PingSent \/ PingFails)
    /\ SF_vars(PingerRotates)
    /\ SF_vars(PingerCloses)
    /\ WF_vars(StrayExits \/ StrayTakesSignal)

Spec == Init /\ [][Next]_vars

FairSpec == Spec /\ Fairness

-----------------------------------------------------------------------------
(* Properties *)

TypeOK ==
    /\ settings \in VersionedSettings \cup {None}
    /\ snapshot \in Snapshot \cup {None}
    /\ mu \in Users \cup {None}
    /\ reconnect \in BOOLEAN
    /\ done \in BOOLEAN
    /\ user \in [Users -> Call]
    /\ conn \in Connection
    /\ stray \in BOOLEAN
    /\ withdrawn \in BOOLEAN
    /\ own \in BOOLEAN
    /\ newest \in {0} \cup Versions
    /\ lost \in BOOLEAN

(* Whenever no writer is inside the lock, the snapshot that quotes read is *)
(* shaped with the buffer of the current settings, however frames and      *)
(* settings raced (handle and offer, feed.go:201-226 and 401-410).         *)
SnapshotShaped ==
    snapshot # None /\ mu = None => snapshot.buffer = settings.buffer

SameSettings(v, w) ==
    /\ SettingsAt[v].token = SettingsAt[w].token
    /\ SettingsAt[v].buffer = SettingsAt[w].buffer

Quiet == \A u \in Users : user[u].pc = "idle"

(* The freshest pool state went back to settings written before the ones   *)
(* in use.  offer ignores settings it already has without raising the      *)
(* version they count from (feed.go:202 and 209), so a state written in    *)
(* between and offered late may have replaced them.                        *)
ChangedBack ==
    \E c \in Versions :
        c < settings.version /\ settings.version < newest /\ SameSettings(c, newest)

(* Once every offer has returned, the client runs on the settings of the   *)
(* freshest pool state it was offered, in whatever order they came and     *)
(* whoever created the client; the only exception is a write that went     *)
(* back to earlier settings, and then the settings in use were written     *)
(* between the two (acquireFeed and offer, feed.go:173-226).               *)
FreshestSettings ==
    Quiet /\ newest # 0
        => SameSettings(settings.version, newest) \/ ChangedBack

(* Over one connection quotes never go back to an older snapshot, not even *)
(* through a reshape that raced with newer frames ("seq must increase      *)
(* strictly within a connection", feed.go:42-44).                          *)
NeverOlder ==
    [][snapshot # None /\ snapshot' # None /\ own /\ own'
          => snapshot'.seq >= snapshot.seq]_vars

(* A withdrawal or an invalid frame clears the cached snapshot "until the  *)
(* next valid snapshot" (feed.go:49-50).                                   *)
WithdrawnStaysCleared == withdrawn => snapshot = None

Configured(tok) == settings # None /\ settings.token = tok

Connected(tok) == conn.pc = "read" /\ conn.token = tok

(* A rotated auth token reaches the connection, even one that would last   *)
(* for ever ("which is how a rotated auth token reaches every process",    *)
(* feed.go:199-200; "a settings rotation reconnects immediately", :263),   *)
(* unless the signal was taken by the pinger of a session that had ended   *)
(* (offer, run, session and the pinger, feed.go:201-226 and 262-350).      *)
TokenReachesServer ==
    \A tok \in Tokens :
        Configured(tok) ~> Connected(tok) \/ ~Configured(tok) \/ done \/ lost

(* A closed client ends its connection goroutine for good, from whatever   *)
(* it was doing: close, run and the pinger (feed.go:253, 262-291, 343).    *)
CloseStops == done ~> conn.pc = "exited"
=============================================================================
