----------------------------- MODULE RedisStore -----------------------------
(***************************************************************************)
(* One artifact in Redis (src/crates/artifact/src/redis.rs) and the        *)
(* clients that upload, download, check and delete it at the same time.    *)
(*                                                                         *)
(* A small value is one string key; a large one is a hash of chunks, put   *)
(* together under a staging key of its own and published by one script.    *)
(* Every command is a step of its own, since other clients' commands come  *)
(* in between; MULTI and EVAL are one step.  An attempt to upload can time *)
(* out while its last command is still on its way, and be repeated.        *)
(*                                                                         *)
(* The value of an upload is the upload itself.  A hash that an older      *)
(* version of the writer left unfinished may be there from the start.      *)
(***************************************************************************)
EXTENDS Naturals, Functions

CONSTANTS
    Uploads,      \* uploads of the artifact, each of its own value
    Chunks,       \* number of chunks of each; 1: small enough for a string
    Readers,      \* downloads and existence checks
    MaxAttempts,  \* bound on the attempts of one upload
    MaxDeletes,   \* bound on deletions
    None          \* no value

VARIABLES
    kind,      \* artifact type: a "Program" is kept for ever
    inline,    \* the string: an upload or None
    hash,      \* the chunk hash
    phase,     \* where each upload stands
    attempt,   \* its attempts so far
    staged,    \* chunks in the staging hash of each attempt
    wire,      \* final commands on their way to Redis
    unlinks,   \* keys a running delete has yet to unlink
    deletes,   \* deletions so far
    readers    \* state of each reader

vars == <<kind, inline, hash, phase, attempt, staged, wire, unlinks, deletes, readers>>

Debris == "debris"
EmptyHash == [n |-> 0, chunk |-> << >>, ttl |-> "none"]

\* n: CHUNK_COUNT_FIELD, 0 when it is absent; chunk: data fields; ttl: expiry.
Unfinished == [n |-> 0, chunk |-> [i \in {0} |-> Debris], ttl |-> "retention"]

Attempts == Uploads \X (1 .. MaxAttempts)
Indices(u) == 0 .. Chunks[u] - 1
Whole(u) == [i \in Indices(u) |-> u]

Present(i, h) == i # None \/ h.n > 0

\* A reader and what happened while it ran: was the artifact ever absent or
\* present, did a hash it might read go away, how often did it change its form.
Reader(at, n, got) ==
    [at |-> at, n |-> n, got |-> got, short |-> FALSE, left |-> {}, seen |-> FALSE,
     absent |-> ~Present(inline, hash), present |-> Present(inline, hash),
     replaced |-> FALSE, flips |-> 0]
Idle == [at |-> "idle"]

Init ==
    /\ kind \in {"Program", "other"}
    /\ inline = None
    /\ hash \in {EmptyHash, Unfinished}
    /\ phase = [u \in Uploads |-> "idle"]
    /\ attempt = [u \in Uploads |-> 0]
    /\ staged = [a \in Attempts |-> {}]
    /\ wire = {}
    /\ unlinks = {}
    /\ deletes = 0
    /\ readers = [r \in Readers |-> Idle]

\* The store becomes i and h, and the running readers' histories note it.
Store(i, h) ==
    /\ inline' = i
    /\ hash' = h
    /\ readers' = [r \in Readers |->
         IF readers[r].at \in {"idle", "done", "not found", "failed", "yes", "no"}
         THEN readers[r]
         ELSE [readers[r] EXCEPT
                !.absent = @ \/ ~Present(i, h),
                !.present = @ \/ Present(i, h),
                !.replaced = @ \/ (hash.n > 0 /\ h # hash),
                !.flips = IF Present(inline, hash) /\ Present(i, h) /\ (hash.n > 0) # (h.n > 0)
                             /\ @ < 2
                          THEN @ + 1 ELSE @]]

-----------------------------------------------------------------------------
(* Uploads.                                                                *)

Current(u) == <<u, attempt[u]>>

\* par_upload_file: an attempt starts, with a fresh staging key when chunked.
StartAttempt(u) ==
    /\ phase[u] = "idle" /\ attempt[u] < MaxAttempts
    /\ attempt' = [attempt EXCEPT ![u] = @ + 1]
    /\ IF Chunks[u] = 1
       THEN /\ phase' = [phase EXCEPT ![u] = "sent"]
            /\ wire' = wire \cup {<<u, attempt[u] + 1>>}
       ELSE /\ phase' = [phase EXCEPT ![u] = "staging"]
            /\ UNCHANGED wire
    /\ UNCHANGED <<kind, inline, hash, staged, unlinks, deletes, readers>>

\* stage_chunk: HSET and EXPIRE of one chunk, in any order.
StageChunk(u, i) ==
    /\ phase[u] = "staging" /\ i \notin staged[Current(u)]
    /\ staged' = [staged EXCEPT ![Current(u)] = @ \cup {i}]
    /\ UNCHANGED <<kind, inline, hash, phase, attempt, wire, unlinks, deletes, readers>>

\* stage_chunks has failed: the staging hash is reclaimed.
StagingFails(u) ==
    /\ phase[u] = "staging"
    /\ staged' = [staged EXCEPT ![Current(u)] = {}]
    /\ phase' = [phase EXCEPT ![u] = "idle"]
    /\ UNCHANGED <<kind, inline, hash, attempt, wire, unlinks, deletes, readers>>

\* Every chunk is staged: send the script.
SendPublish(u) ==
    /\ phase[u] = "staging" /\ staged[Current(u)] = Indices(u)
    /\ phase' = [phase EXCEPT ![u] = "sent"]
    /\ wire' = wire \cup {Current(u)}
    /\ UNCHANGED <<kind, inline, hash, attempt, staged, unlinks, deletes, readers>>

\* The staging hash expires (STAGING_TTL_SECONDS) before its script arrives.
StagingExpires(a) ==
    /\ a \in wire /\ staged[a] # {}
    /\ staged' = [staged EXCEPT ![a] = {}]
    /\ UNCHANGED <<kind, inline, hash, phase, attempt, wire, unlinks, deletes, readers>>

\* The attempt times out or its connection breaks; the command may get there
\* or not.
AttemptFails(u, lost) ==
    /\ phase[u] = "sent"
    /\ lost => Current(u) \in wire
    /\ phase' = [phase EXCEPT ![u] = "idle"]
    /\ wire' = IF lost THEN wire \ {Current(u)} ELSE wire
    /\ UNCHANGED <<kind, inline, hash, attempt, staged, unlinks, deletes, readers>>

\* The client hears the answer if it still waits for this attempt.
Answered(a, result) ==
    phase' = IF phase[a[1]] = "sent" /\ a = Current(a[1])
             THEN [phase EXCEPT ![a[1]] = result] ELSE phase

\* The string is left without an expiry of its own, or gets the retention.
Retention == IF kind = "Program" THEN "none" ELSE "retention"

\* upload_inline: SET and UNLINK of the chunk hash in one MULTI.
SetInline(a) ==
    /\ a \in wire /\ Chunks[a[1]] = 1
    /\ wire' = wire \ {a}
    /\ Store(a[1], EmptyHash)
    /\ Answered(a, "ok")
    /\ UNCHANGED <<kind, attempt, staged, unlinks, deletes>>

Published == hash.n > 0

\* Fault: the string is unlinked before the chunks are counted.
UnlinkFirst == None

StagingComplete(a) == staged[a] = Indices(a[1])
WhenRefused == inline

\* PUBLISH_SCRIPT: the first writer wins; an incomplete staging hash is
\* dropped; otherwise it replaces what is there and the string goes.
PublishStaged(a) ==
    /\ a \in wire /\ Chunks[a[1]] > 1
    /\ wire' = wire \ {a}
    /\ staged' = [staged EXCEPT ![a] = {}]
    /\ \/ /\ Published
          /\ Store(None, hash)
          /\ Answered(a, "ok")
       \/ /\ ~Published /\ ~StagingComplete(a)
          /\ Store(WhenRefused, hash)
          /\ Answered(a, "idle")
       \/ /\ ~Published /\ StagingComplete(a)
          /\ Store(None, [n |-> Chunks[a[1]], chunk |-> Restrict(Whole(a[1]), staged[a]),
                          ttl |-> Retention])
          /\ Answered(a, "ok")
    /\ UNCHANGED <<kind, attempt, unlinks, deletes>>

-----------------------------------------------------------------------------
(* Deletion and expiry.                                                    *)

\* delete: two commands on two connections.
StartDelete ==
    /\ unlinks = {} /\ deletes < MaxDeletes
    /\ unlinks' = {"inline", "hash"}
    /\ deletes' = deletes + 1
    /\ UNCHANGED <<kind, inline, hash, phase, attempt, staged, wire, readers>>

Unlink(key) ==
    /\ key \in unlinks
    /\ unlinks' = unlinks \ {key}
    /\ Store(IF key = "inline" THEN None ELSE inline, IF key = "hash" THEN EmptyHash ELSE hash)
    /\ UNCHANGED <<kind, phase, attempt, staged, wire, deletes>>

\* delete_batch: one UNLINK with both keys.
DeleteBatch ==
    /\ deletes < MaxDeletes
    /\ deletes' = deletes + 1
    /\ Store(None, EmptyHash)
    /\ UNCHANGED <<kind, phase, attempt, staged, wire, unlinks>>

InlineExpires ==
    /\ inline # None /\ Retention = "retention"
    /\ Store(None, hash)
    /\ UNCHANGED <<kind, phase, attempt, staged, wire, unlinks, deletes>>

HashExpires ==
    /\ hash.ttl # "none"
    /\ Store(inline, EmptyHash)
    /\ UNCHANGED <<kind, phase, attempt, staged, wire, unlinks, deletes>>

-----------------------------------------------------------------------------
(* Downloads (par_download_file) and existence checks (exists).            *)

Becomes(r, state) ==
    /\ readers' = [readers EXCEPT ![r] = state]
    /\ UNCHANGED <<kind, inline, hash, phase, attempt, staged, wire, unlinks, deletes>>

\* HGET of the declared count.
ReadCount(r) ==
    /\ readers[r] = Idle
    /\ Becomes(r, Reader(IF hash.n > 0 THEN "chunks" ELSE "length", hash.n, << >>))

\* HLEN: a hash without a declared count is read as it is.
ReadLength(r) ==
    /\ readers[r].at = "length"
    /\ LET fields == DOMAIN hash.chunk \cup (IF hash.n > 0 THEN {"count"} ELSE {})
           n == IF hash.n > 0 THEN hash.n + 1 ELSE IF fields = {} THEN 0 ELSE 1
       IN  Becomes(r, [readers[r] EXCEPT !.at = IF n = 0 THEN "inline" ELSE "chunks",
                                         !.n = n, !.short = n > 0])

ReadInline(r) ==
    /\ readers[r].at = "inline"
    /\ Becomes(r, IF inline = None THEN [readers[r] EXCEPT !.at = "recheck"]
                  ELSE [readers[r] EXCEPT !.at = "done", !.n = Chunks[inline],
                                          !.got = Whole(inline)])

\* Fault: no second look, what is not a string is not there.
NoRecheck == 0

CountNow == hash.n

\* The count is read once more before the artifact is reported missing.
Recheck(r) ==
    /\ readers[r].at = "recheck"
    /\ Becomes(r, [readers[r] EXCEPT !.at = IF CountNow = 0 THEN "not found" ELSE "chunks",
                                     !.n = CountNow])

AllRead(r, got) == DOMAIN got = 0 .. readers[r].n - 1

\* HGET of one chunk; a field that is gone is an error.
ReadChunk(r, i) ==
    /\ readers[r].at = "chunks" /\ i < readers[r].n /\ i \notin DOMAIN readers[r].got
    /\ Becomes(r, IF i \notin DOMAIN hash.chunk
                  THEN [readers[r] EXCEPT !.at = "failed"]
                  ELSE LET got == [j \in DOMAIN readers[r].got \cup {i} |->
                                     IF j = i THEN hash.chunk[i] ELSE readers[r].got[j]]
                       IN  [readers[r] EXCEPT !.got = got,
                              !.at = IF AllRead(r, got) THEN "done" ELSE @])

\* exists: two questions asked at once.
Ask(r) ==
    /\ readers[r] = Idle
    /\ Becomes(r, [Reader("asking", 0, << >>) EXCEPT !.left = {"inline", "hash"}])

MarkerExists == hash.n > 0

Answer(r, key) ==
    /\ readers[r].at = "asking" /\ key \in readers[r].left
    /\ LET seen == readers[r].seen \/ IF key = "inline" THEN inline # None ELSE MarkerExists
           left == readers[r].left \ {key}
       IN  Becomes(r, [readers[r] EXCEPT !.left = left, !.seen = seen,
                         !.at = IF left # {} THEN @ ELSE IF seen THEN "yes" ELSE "no"])

-----------------------------------------------------------------------------
Upload(u) ==
    \/ StartAttempt(u) \/ StagingFails(u) \/ SendPublish(u)
    \/ \E i \in Indices(u) : Chunks[u] > 1 /\ StageChunk(u, i)
    \/ \E lost \in BOOLEAN : AttemptFails(u, lost)

Deletion == StartDelete \/ (\E key \in unlinks : Unlink(key)) \/ DeleteBatch

Read(r) ==
    \/ ReadCount(r) \/ ReadLength(r) \/ ReadInline(r) \/ Recheck(r) \/ Ask(r)
    \/ \E u \in Uploads : \E i \in 0 .. Chunks[u] : ReadChunk(r, i)
    \/ \E key \in {"inline", "hash"} : Answer(r, key)

Next ==
    \/ \E u \in Uploads : Upload(u)
    \/ \E a \in wire : SetInline(a) \/ PublishStaged(a) \/ StagingExpires(a)
    \/ Deletion \/ InlineExpires \/ HashExpires
    \/ \E r \in Readers : Read(r)

Spec == Init /\ [][Next]_vars

-----------------------------------------------------------------------------
\* A hash that declares a count is a whole upload of exactly that count, is
\* kept as long as the artifact's type says, and has no string beside it:
\* an attempt given up at any point leaves nothing or everything
\* (publish_staged, upload_inline).
PublishedIsWhole ==
    hash.n > 0 =>
        /\ inline = None
        /\ hash.ttl = Retention
        /\ \E u \in Uploads : hash.n = Chunks[u] /\ hash.chunk = Whole(u)

\* "A published hash never changes until delete or expiry": late and repeated
\* scripts of other uploads included.
PublishedNeverMutates == [][hash.n > 0 => hash' \in {hash, EmptyHash}]_vars

\* An upload that is acknowledged leaves an artifact behind: its own, or the
\* one that was published first; an unfinished hash is neither.
AckMeansStored ==
    [][\A u \in DOMAIN phase : phase[u] # "ok" /\ phase'[u] = "ok" => Present(inline', hash')]_vars

\* The artifact goes away only by a deletion or when its retention is over,
\* never by an upload, whenever its commands arrive.
OnlyDeletedOrExpired ==
    [][Present(inline, hash) /\ ~Present(inline', hash')
         => Deletion \/ (Retention = "retention" /\ (hash.n > 0 => hash.ttl = "retention"))]_vars

\* A download that succeeds returns one whole upload, unless the hash it read
\* had no declared count or was deleted, replaced by a small value or expired
\* while it was read: then chunks of a later upload may follow the first ones.
NoTornRead ==
    \A r \in Readers : readers[r].at = "done" /\ ~readers[r].short /\ ~readers[r].replaced
        => \E u \in Uploads : readers[r].n = Chunks[u] /\ readers[r].got = Whole(u)

\* An artifact that is reported missing was missing at some moment of the
\* download, or changed its form twice under it: the second look tells a
\* publication from an absence.  One change suffices to mislead an existence
\* check into "no"; nothing misleads it into "yes", an unfinished hash neither.
NotFoundMeansAbsent ==
    \A r \in Readers :
        /\ readers[r].at = "not found" => readers[r].absent \/ readers[r].flips = 2
        /\ readers[r].at = "no" => readers[r].absent \/ readers[r].flips > 0
        /\ readers[r].at = "yes" => readers[r].present
=============================================================================
