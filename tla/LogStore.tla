------------------------------ MODULE LogStore ------------------------------
(***************************************************************************)
(* The crash-log store (src/src/logs.rs) with its upload limiter (the      *)
(* LastTimestampLimiter of src/src/quotas.rs) and the sweep that expires   *)
(* both (src/src/cleanup.rs).  A log is the upload that brought it; the    *)
(* map of entries is a function that is None where it has none.  Handlers  *)
(* read the clock, then wait for the lock on the entries, so a reading may *)
(* be old by the time it is used, and a client may go away meanwhile.      *)
(* governor's limit on failed lookups answers as it likes.                 *)
(***************************************************************************)
EXTENDS Naturals, FiniteSets

CONSTANTS
  Uploads, Lookups,       \* requests to POST /logs and GET /logs/{id}
  Addresses, AddressOf,   \* client addresses, and that of every upload
  LogIds,                 \* well-formed ids
  None,
  LOG_MAX_AGE, MAX_LOG_ENTRIES, LOG_UPLOAD_INTERVAL, MAX_CONCURRENT_LOOKUPS,
  MaxTime, MaxBoots       \* bounds on the clock and on process starts

VARIABLES
  entries,       \* LogStore.entries
  last,          \* upload_limiter.last
  lookup_slots,  \* free permits of the semaphore
  post, lookup,  \* how far every upload and every lookup has got
  sweep,         \* the clock reading of the sweep that is running, or None
  now, boot,     \* the clock, and which process this is
  accepted       \* ghost: when the limiter last let each address through

logVars == <<entries, last, lookup_slots, post, lookup, sweep, now, boot, accepted>>

Entries == [data : Uploads, created_at : Nat]

ASSUME LogConstants ==
  /\ AddressOf \in [Uploads -> Addresses]
  /\ {LOG_MAX_AGE, LOG_UPLOAD_INTERVAL, MAX_CONCURRENT_LOOKUPS} \subseteq Nat \ {0}
  /\ MAX_LOG_ENTRIES \in Nat /\ MaxTime \in Nat /\ MaxBoots \in Nat
  /\ None \notin Nat \cup LogIds \cup Entries
  \* Otherwise the search for an unused id need not end.
  /\ IsFiniteSet(LogIds) /\ MAX_LOG_ENTRIES <= Cardinality(LogIds)

NotPosted == [pc |-> "new", now |-> None, id |-> None, boot |-> 0]

NoEntries == [id \in LogIds |-> None]

NoUploads == [a \in Addresses |-> None]

\* LogStore::new.
LogInit ==
  /\ entries = NoEntries /\ last = NoUploads
  /\ lookup_slots = MAX_CONCURRENT_LOOKUPS
  /\ sweep = None
  /\ post = [u \in Uploads |-> NotPosted]
  /\ lookup = [g \in Lookups |-> "new"]
  /\ now = 0 /\ boot = 0
  /\ accepted = NoUploads

Tick ==
  /\ now < MaxTime /\ now' = now + 1
  /\ UNCHANGED <<entries, last, lookup_slots, post, lookup, sweep, boot, accepted>>
-----------------------------------------------------------------------------
(* LastTimestampLimiter *)

Elapsed(t, since) == IF t < since THEN 0 ELSE t - since

\* allow would let address a through at time t.
MayUpload(a, t) == last[a] # None => Elapsed(t, last[a]) >= LOG_UPLOAD_INTERVAL

\* Variant of RecentUploads: half the interval is enough to forget an upload.
RecentUploadsHalved(t) ==
  [a \in Addresses |-> IF last[a] # None /\ 2 * Elapsed(t, last[a]) < LOG_UPLOAD_INTERVAL
                       THEN last[a] ELSE None]

\* What cleanup keeps.
RecentUploads(t) ==
  [a \in Addresses |-> IF last[a] # None /\ Elapsed(t, last[a]) < LOG_UPLOAD_INTERVAL
                       THEN last[a] ELSE None]
-----------------------------------------------------------------------------
(* The entries *)

\* Variant of Unexpired: an entry younger than the reading is taken for old.
UnexpiredOrUnknown(t) ==
  [id \in LogIds |-> IF /\ entries[id] # None
                        /\ t >= entries[id].created_at
                        /\ t - entries[id].created_at < LOG_MAX_AGE
                     THEN entries[id] ELSE None]

\* What retain keeps for a reading t of the clock.
Unexpired(t) ==
  [id \in LogIds |-> IF /\ entries[id] # None
                        /\ Elapsed(t, entries[id].created_at) < LOG_MAX_AGE
                     THEN entries[id] ELSE None]

Stored(e) == {id \in LogIds : e[id] # None}

\* The ids generate_log_id may end with.
FreshIds(e) == LogIds \ Stored(e)

\* Variant of Full: one entry too many.
FullPastCap(e) == Cardinality(Stored(e)) > MAX_LOG_ENTRIES

Full(e) == Cardinality(Stored(e)) >= MAX_LOG_ENTRIES
-----------------------------------------------------------------------------
(* POST /logs *)

\* The limiter refuses.
PostRefused(u) ==
  /\ post[u].pc = "new" /\ ~MayUpload(AddressOf[u], now)
  /\ post' = [post EXCEPT ![u].pc = "refused"]
  /\ UNCHANGED <<entries, last, lookup_slots, lookup, sweep, now, boot, accepted>>

\* The limiter lets the upload through and takes note of it, then the body is
\* empty or too large, or the clock is read and the lock waited for.
PostAdmitted(u) ==
  /\ post[u].pc = "new" /\ MayUpload(AddressOf[u], now)
  /\ last' = [last EXCEPT ![AddressOf[u]] = now]
  /\ accepted' = [accepted EXCEPT ![AddressOf[u]] = now]
  /\ \/ post' = [post EXCEPT ![u].pc = "refused"]
     \/ post' = [post EXCEPT ![u] = [pc |-> "waiting", now |-> now, id |-> None, boot |-> boot]]
  /\ UNCHANGED <<entries, lookup_slots, lookup, sweep, now, boot>>

\* With the lock: expired entries go first, then the log is stored if it fits.
PostStores(u) ==
  LET kept == Unexpired(post[u].now)
  IN  /\ post[u].pc = "waiting"
      /\ \/ /\ Full(kept)
            /\ post' = [post EXCEPT ![u].pc = "refused"] /\ entries' = kept
         \/ /\ ~Full(kept)
            /\ \E id \in FreshIds(kept) :
                 /\ post' = [post EXCEPT ![u].pc = "stored", ![u].id = id]
                 /\ entries' = [kept EXCEPT ![id] = [data |-> u, created_at |-> post[u].now]]
      /\ UNCHANGED <<last, lookup_slots, lookup, sweep, now, boot, accepted>>

\* The client goes away and the handler is dropped while it waits.
PostDropped(u) ==
  /\ post[u].pc = "waiting"
  /\ post' = [post EXCEPT ![u].pc = "refused"]
  /\ UNCHANGED <<entries, last, lookup_slots, lookup, sweep, now, boot, accepted>>
-----------------------------------------------------------------------------
(* GET /logs/{id} *)

\* try_acquire takes a permit, or fails when there is none.
LookupAdmitted(g) ==
  /\ lookup[g] = "new"
  /\ \/ /\ lookup_slots > 0 /\ lookup_slots' = lookup_slots - 1
        /\ lookup' = [lookup EXCEPT ![g] = "waiting"]
     \/ /\ lookup_slots = 0 /\ lookup' = [lookup EXCEPT ![g] = "done"]
        /\ UNCHANGED lookup_slots
  /\ UNCHANGED <<entries, last, post, sweep, now, boot, accepted>>

\* Variant of LookupEnds: an id that is not found keeps its permit.
LookupFound(g) ==
  /\ lookup[g] = "waiting" /\ lookup' = [lookup EXCEPT ![g] = "done"]
  /\ lookup_slots' = IF Stored(entries) = {} THEN lookup_slots ELSE lookup_slots + 1
  /\ UNCHANGED <<entries, last, post, sweep, now, boot, accepted>>

\* The entry is read with the lock and answered, the id is malformed or unknown,
\* or the client goes away: in every case the permit is dropped.
LookupEnds(g) ==
  /\ lookup[g] = "waiting" /\ lookup' = [lookup EXCEPT ![g] = "done"]
  /\ lookup_slots' = lookup_slots + 1
  /\ UNCHANGED <<entries, last, post, sweep, now, boot, accepted>>
-----------------------------------------------------------------------------
(* The sweep, and the process *)

\* sweep reads the clock before it goes through the rooms.
SweepStarts ==
  /\ sweep = None /\ sweep' = now
  /\ UNCHANGED <<entries, last, lookup_slots, post, lookup, now, boot, accepted>>

\* Variant of SweepLogs: entries are left to the next upload.
SweepLimiterOnly ==
  /\ sweep # None /\ sweep' = None
  /\ last' = RecentUploads(now)
  /\ UNCHANGED <<entries, lookup_slots, post, lookup, now, boot, accepted>>

\* LogStore::cleanup with the sweep's reading, the limiter's with its own.
SweepLogs ==
  /\ sweep # None /\ sweep' = None
  /\ entries' = Unexpired(sweep)
  /\ last' = RecentUploads(now)
  /\ UNCHANGED <<lookup_slots, post, lookup, now, boot, accepted>>

\* The process stops and main builds a LogStore::new.
LogRestart ==
  /\ boot < MaxBoots /\ boot' = boot + 1
  /\ entries' = NoEntries /\ last' = NoUploads
  /\ lookup_slots' = MAX_CONCURRENT_LOOKUPS
  /\ sweep' = None
  /\ post' = [u \in Uploads |-> IF post[u].pc = "waiting" THEN [post[u] EXCEPT !.pc = "refused"]
                                ELSE post[u]]
  /\ lookup' = [g \in Lookups |-> IF lookup[g] = "waiting" THEN "done" ELSE lookup[g]]
  /\ accepted' = NoUploads
  /\ UNCHANGED now

Post(u) == PostRefused(u) \/ PostAdmitted(u) \/ PostStores(u) \/ PostDropped(u)

Lookup(g) == LookupAdmitted(g) \/ LookupEnds(g)

LogNext ==
  \/ Tick \/ SweepStarts \/ SweepLogs \/ LogRestart
  \/ \E u \in Uploads : Post(u)
  \/ \E g \in Lookups : Lookup(g)

LogSpec == LogInit /\ [][LogNext]_logVars

\* The clock runs, and cleanup::run's interval keeps firing.
FairLogSpec == LogSpec /\ WF_logVars(Tick) /\ WF_logVars(SweepStarts) /\ WF_logVars(SweepLogs)
-----------------------------------------------------------------------------
(* Properties *)

Posts == [pc : {"new", "waiting", "stored", "refused"},
          now : Nat \cup {None}, id : LogIds \cup {None}, boot : Nat]

LogTypeOK ==
  /\ entries \in [LogIds -> Entries \cup {None}]
  /\ last \in [Addresses -> Nat \cup {None}]
  /\ accepted \in [Addresses -> Nat \cup {None}]
  /\ lookup_slots \in Nat
  /\ post \in [Uploads -> Posts]
  /\ lookup \in [Lookups -> {"new", "waiting", "done"}]
  /\ sweep \in Nat \cup {None} /\ now \in Nat /\ boot \in Nat

Entry(u) == [data |-> u, created_at |-> post[u].now]

\* The log of u was stored less than LOG_MAX_AGE ago.
Current(u) == post[u].pc = "stored" /\ now - post[u].now < LOG_MAX_AGE

\* Until it is LOG_MAX_AGE old, the id an uploader was given finds their log:
\* no other upload gets the same id, and no upload or sweep with an old reading
\* of the clock, or one older than the entry, expires it early.
StoredIsServed ==
  \A u \in Uploads :
    Current(u) /\ post[u].boot = boot => entries[post[u].id] = Entry(u)

\* "1 upload per minute": the sweep never forgets an address so early that the
\* limiter lets it through twice within LOG_UPLOAD_INTERVAL.
UploadsSpaced ==
  [][\A a \in Addresses :
       accepted'[a] # accepted[a] /\ boot' = boot =>
         accepted[a] = None \/ accepted'[a] >= accepted[a] + LOG_UPLOAD_INTERVAL]_logVars

\* The store holds at most MAX_LOG_ENTRIES, also of uploads that waited for the
\* lock together.
StoreBounded == Cardinality(Stored(entries)) <= MAX_LOG_ENTRIES

\* A permit is free or held by a lookup that is still running, so lookups that
\* found nothing, or whose client went away, never use them up.
PermitsExact ==
  lookup_slots + Cardinality({g \in Lookups : lookup[g] = "waiting"}) = MAX_CONCURRENT_LOOKUPS

\* cleanup.rs: the sweep "expires log-store entries", so a log older than
\* LOG_MAX_AGE goes even when nothing is uploaded.
ExpiredGoes ==
  \A u \in Uploads :
    post[u].pc = "stored" /\ ~Current(u) ~> \A id \in LogIds : entries[id] # Entry(u)
=============================================================================
