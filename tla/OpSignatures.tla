---------------------------- MODULE OpSignatures ----------------------------
(***************************************************************************)
(* The RFQ handler of source/limitorder and its cache of operator          *)
(* signatures: concurrent RFQs look up the orders they fill, fetch the     *)
(* missing signatures from the operator service, store and use them, while *)
(* time passes and orders are cancelled or filled by others.               *)
(*                                                                         *)
(* The service is external.  It signs the orders that are active, and      *)
(* mints a new expiry for an order only when the current one has less than *)
(* its minimum valid time left.                                            *)
(***************************************************************************)
EXTENDS Integers, FiniteSets

CONSTANTS
    Callers,
    Orders,
    TTL,            \* OpSignatureCacheTTL; 0 disables the cache
    Margin,         \* OpSignatureValidityMargin
    MaxCached,      \* maxCachedOpSignatures
    MinValid,       \* of the service: an expiry that is nearer is renewed
    Validity,       \* of the service: how long a new expiry lasts
    Timeout,        \* how long the HTTP request of an RFQ may take, with its
                    \* retries
    HeldExpiries,   \* of the service: the expiries it may hold at the start
    MaxTime,        \* bound on the clock
    None

(* Times are those of the clock; issued is when the service gave it out. *)
Signature == [expiry : Int, issued : Int]

Entry == [sig : Signature, staleAt : Int]

ASSUME SignatureAssumption ==
    /\ TTL \in Nat /\ Margin \in Nat \ {0} /\ MaxCached \in Nat
    /\ MinValid \in Nat /\ Validity \in Nat /\ MinValid <= Validity
    /\ Timeout \in Nat /\ MaxTime \in Nat /\ HeldExpiries \subseteq Nat
    /\ IsFiniteSet(Orders)
    /\ None \notin Signature /\ None \notin Entry

VARIABLES
    now,
    active,     \* the orders that can be filled, as the service knows them
    expiry,     \* the expiry it signs for each order
    entries,    \* opSignatureCache.entries
    pc,         \* where each RFQ is
    required,   \* the orders it fills that are not fallback orders
    uncached,   \* those it still has to fetch
    began,      \* when it looked into the cache
    cached,     \* the signatures it found there
    fetched     \* the signatures the service returned

service == <<active, expiry>>

request == <<required, began, cached>>

vars == <<now, service, entries, pc, request, uncached, fetched>>

Nothing == [o \in Orders |-> None]

Signed(sigs) == {o \in Orders : sigs[o] # None}

-----------------------------------------------------------------------------
(* The cache *)

UsableAt_IgnoresMargin(entry, time) == time < entry.staleAt /\ entry.sig.expiry > time

UsableAt_IgnoresTTL(entry, time) == entry.sig.expiry > time + Margin

UsableAt(entry, time) == time < entry.staleAt /\ entry.sig.expiry > time + Margin

Reusable(o) == entries[o] # None /\ UsableAt(entries[o], now)

(* Unusable entries are swept only when there are too many. *)
Kept_All(o) == entries[o]

Kept(o) ==
    IF entries[o] # None /\ Cardinality(Signed(entries)) > MaxCached
         /\ ~UsableAt(entries[o], now)
    THEN None ELSE entries[o]

StoreAll_Undated(sigs) ==
    entries' = [o \in Orders |-> IF sigs[o] # None THEN sigs[o] ELSE Kept(o)]

StoreAll(sigs) ==
    entries' = IF TTL = 0 \/ Signed(sigs) = {} THEN entries
               ELSE [o \in Orders |->
                       IF sigs[o] # None THEN [sig |-> sigs[o], staleAt |-> now + TTL]
                       ELSE Kept(o)]

-----------------------------------------------------------------------------
(* RFQ and GetOpSignatures.  An RFQ whose recipient is a maker's receiver  *)
(* is turned down before it does anything.                                 *)

Move(c, from, to) == pc[c] = from /\ pc' = [pc EXCEPT ![c] = to]

Lookup(c, ids, need) ==
    LET found == {o \in ids : Reusable(o)}
    IN  /\ Move(c, "idle", IF found = ids THEN "done" ELSE "fetch")
        /\ required' = [required EXCEPT ![c] = need]
        /\ uncached' = [uncached EXCEPT ![c] = ids \ found]
        /\ began' = [began EXCEPT ![c] = now]
        /\ cached' = [cached EXCEPT ![c] =
                        [o \in Orders |-> IF o \in found THEN entries[o].sig ELSE None]]
        /\ UNCHANGED <<now, service, entries, fetched>>

(* The service signs what is active among the orders it is asked for. *)
Renewed(o) == IF expiry[o] < now + MinValid THEN now + Validity ELSE expiry[o]

Answer(c) ==
    LET given == uncached[c] \cap active
    IN  /\ Move(c, "fetch", "store")
        /\ expiry' = [o \in Orders |-> IF o \in given THEN Renewed(o) ELSE expiry[o]]
        /\ fetched' = [fetched EXCEPT ![c] =
              [o \in Orders |-> IF o \in given
                                THEN [expiry |-> Renewed(o), issued |-> now] ELSE None]]
        /\ uncached' = [uncached EXCEPT ![c] = {}]
        /\ UNCHANGED <<now, active, entries, request>>

Result_FetchedOnly(c) == fetched[c]

Result(c) ==
    [o \in Orders |-> IF cached[c][o] # None THEN cached[c][o] ELSE fetched[c][o]]

(* ErrMissingOperatorSignature, if an order that is not a fallback has no  *)
(* signature.                                                              *)
Outcome(c) == IF required[c] \subseteq Signed(Result(c)) THEN "done" ELSE "missing"

Store(c) ==
    /\ Move(c, "store", Outcome(c))
    /\ StoreAll(fetched[c])
    /\ UNCHANGED <<now, service, request, uncached, fetched>>

(* The caller takes the result; or the request fails or times out, which   *)
(* fails the whole RFQ, whatever the cache had.                            *)
Leave(c) ==
    /\ pc[c] \in {"fetch", "done", "missing"}
    /\ pc' = [pc EXCEPT ![c] = "idle"]
    /\ required' = [required EXCEPT ![c] = {}]
    /\ uncached' = [uncached EXCEPT ![c] = {}]
    /\ began' = [began EXCEPT ![c] = 0]
    /\ cached' = [cached EXCEPT ![c] = Nothing]
    /\ fetched' = [fetched EXCEPT ![c] = Nothing]
    /\ UNCHANGED <<now, service, entries>>

-----------------------------------------------------------------------------
(* Time, and what others do to the orders *)

(* What takes an RFQ time is its request. *)
Tick ==
    /\ now < MaxTime
    /\ \A c \in Callers :
          pc[c] # "idle" => pc[c] \in {"fetch", "store"} /\ now < began[c] + Timeout
    /\ now' = now + 1
    /\ UNCHANGED <<service, entries, pc, request, uncached, fetched>>

Cancel(o) ==
    /\ o \in active
    /\ active' = active \ {o}
    /\ UNCHANGED <<now, expiry, entries, pc, request, uncached, fetched>>

Init ==
    /\ now = 0
    /\ active = Orders
    /\ expiry \in [Orders -> HeldExpiries]
    /\ entries = Nothing
    /\ pc = [c \in Callers |-> "idle"]
    /\ uncached = [c \in Callers |-> {}]
    /\ required = [c \in Callers |-> {}]
    /\ began = [c \in Callers |-> 0]
    /\ cached = [c \in Callers |-> Nothing]
    /\ fetched = [c \in Callers |-> Nothing]

Next ==
    \/ \E c \in Callers, ids \in SUBSET Orders \ {{}} : \E need \in SUBSET ids \ {{}} : Lookup(c, ids, need)
    \/ \E c \in Callers : Answer(c)
    \/ \E c \in Callers : Store(c)
    \/ \E c \in Callers : Leave(c)
    \/ Tick
    \/ \E o \in Orders : Cancel(o)

Spec == Init /\ [][Next]_vars

-----------------------------------------------------------------------------
(* Properties *)

TypeOK ==
    /\ now \in 0..MaxTime
    /\ active \subseteq Orders
    /\ expiry \in [Orders -> Nat]
    /\ entries \in [Orders -> Entry \cup {None}]
    /\ pc \in [Callers -> {"idle", "fetch", "store", "done", "missing"}]
    /\ uncached \in [Callers -> SUBSET Orders]
    /\ required \in [Callers -> SUBSET Orders]
    /\ began \in [Callers -> 0..MaxTime]
    /\ cached \in [Callers -> [Orders -> Signature \cup {None}]]
    /\ fetched \in [Callers -> [Orders -> Signature \cup {None}]]

(* "Still valid when the tx executes" (http_client.go:224): an RFQ whose   *)
(* request took no longer than the margin, and less than the service's     *)
(* minimum valid time, returns only signatures that are valid when it      *)
(* returns, cached or not and in whatever order concurrent RFQs stored     *)
(* theirs.  A request may take longer, by default 30 seconds against 24    *)
(* (:19 and :227); what was found before it is not looked at again.        *)
ValidOnReturn ==
    \A c \in Callers :
        pc[c] = "done" /\ now <= began[c] + Margin /\ now < began[c] + MinValid =>
            \A o \in Signed(Result(c)) : Result(c)[o].expiry > now

(* "OpSignatureCacheTTL caps how long GetOpSignatures may serve an         *)
(* operator signature" (config.go:26): what is found in the cache left the *)
(* service no longer ago than the TTL, plus the time its RFQ may have      *)
(* taken to store it.                                                      *)
StalenessBounded ==
    \A c \in Callers : \A o \in Signed(cached[c]) :
        began[c] < cached[c][o].issued + Timeout + TTL

(* ErrMissingOperatorSignature is never caused by the cache: some required *)
(* order really can no longer be filled.                                   *)
MissingIsReal ==
    \A c \in Callers : pc[c] = "missing" => ~(required[c] \subseteq active)

(* "a sweep always reclaims everything older than that"                    *)
(* (http_client.go:230): however many orders pass through, storing leaves  *)
(* at most maxCachedOpSignatures entries that have outlived their TTL.     *)
ExpiredBounded ==
    [][entries' # entries =>
          Cardinality({o \in Orders : entries'[o] # None /\ entries'[o].staleAt <= now})
              <= MaxCached]_vars
=============================================================================
