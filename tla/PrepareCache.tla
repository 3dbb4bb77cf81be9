---------------------------- MODULE PrepareCache ----------------------------
(***************************************************************************)
(* The prepare cache of routes/Send.kt (PrepareEntry, PrepareCache): an    *)
(* in-memory map from a random prepare_id to the payment it quotes, bound  *)
(* to a user and good for TTL.  take is a one-shot read.  A sweeper thread *)
(* sleeps, computes a cutoff once and then visits the entries one by one,  *)
(* while requests put and take: the map is concurrent, each visit is       *)
(* atomic, the sweep is not.                                               *)
(*                                                                         *)
(* Time is discrete and bounded by MaxNow; the 30 s sleep is abstracted to *)
(* "the sweeper may wake at any time".  The send routes (SeedSend) use     *)
(* these actions inside their own.                                         *)
(***************************************************************************)
EXTENDS Integers

CONSTANTS
    User,
    PrepareId,     \* ids are random and never repeat: each is issued once
    Intent,        \* what a user wants to pay: the payload of a prepare
    TTL,           \* PREPARE_TTL_MS
    MaxNow,        \* bound on the clock
    NoEntry,
    Asleep

ASSUME TTLAssumption == TTL \in Nat
ASSUME MaxNowAssumption == MaxNow \in Nat
ASSUME NoEntryAssumption == NoEntry \notin [user : User, intent : Intent, created : 0..MaxNow]

VARIABLES
    cache,         \* the map; NoEntry where it has no key
    now,           \* System.currentTimeMillis()
    cutoff         \* the sweeper's cutoff while it sweeps, else Asleep

cacheVars == <<cache, now, cutoff>>

Entry == [user : User, intent : Intent, created : 0..MaxNow]

CacheTypeOK ==
    /\ cache \in [PrepareId -> Entry \cup {NoEntry}]
    /\ now \in 0..MaxNow
    /\ cutoff \in {Asleep} \cup -TTL..MaxNow

CacheInit ==
    /\ cache = [id \in PrepareId |-> NoEntry]
    /\ now = 0
    /\ cutoff = Asleep

\* System.currentTimeMillis() - createdAtMs > PREPARE_TTL_MS
Expired(e) == now - e.created > TTL

\* Fault: stamped with the time it will expire.
PutFault(id, u, i) ==
    cache' = [cache EXCEPT ![id] = [user |-> u, intent |-> i, created |-> now + TTL + 1]]

\* cache.put of a new entry, stamped with the time of its construction.
Put(id, u, i) ==
    cache' = [cache EXCEPT ![id] = [user |-> u, intent |-> i, created |-> now]]

\* Fault: a read that leaves the entry where it is.
TakeFault(id) == cache' = cache

\* take removes the entry whatever it then returns ...
Take(id) == cache' = [cache EXCEPT ![id] = NoEntry]

\* ... and returns it only if it is still good.
Taken(id) == IF cache[id] # NoEntry /\ ~Expired(cache[id]) THEN cache[id] ELSE NoEntry

\* Fault: off by one at the boundary.
SweepsFault(id) == cache[id] # NoEntry /\ cache[id].created <= cutoff

\* The sweeper's test of one entry, against the cutoff it computed when it woke.
Sweeps(id) == cache[id] # NoEntry /\ cache[id].created < cutoff

WakeSweeper ==
    /\ cutoff = Asleep
    /\ cutoff' = now - TTL
    /\ UNCHANGED <<cache, now>>

SweepEntry(id) ==
    /\ cutoff # Asleep
    /\ Sweeps(id)
    /\ cache' = [cache EXCEPT ![id] = NoEntry]
    /\ UNCHANGED <<now, cutoff>>

\* Fault: the cutoff is computed outside the sweeper's loop.
SweepDoneFault ==
    /\ cutoff # Asleep
    /\ \A id \in PrepareId : ~Sweeps(id)
    /\ UNCHANGED cacheVars

\* removeIf has visited every entry.
SweepDone ==
    /\ cutoff # Asleep
    /\ \A id \in PrepareId : ~Sweeps(id)
    /\ cutoff' = Asleep
    /\ UNCHANGED <<cache, now>>

Tick ==
    /\ now < MaxNow
    /\ now' = now + 1
    /\ UNCHANGED <<cache, cutoff>>
=============================================================================
