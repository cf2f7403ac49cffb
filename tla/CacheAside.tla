----------------------------- MODULE CacheAside -----------------------------
(***************************************************************************)
(* One Redis key filled by readers and dropped by writers, as the API      *)
(* keeps an exam's paper (backend/src/exams/exam-paper-cache.service.ts)   *)
(* and an organisation's entitlements                                      *)
(* (backend/src/subscriptions/entitlements.service.ts).  What is cached is *)
(* a parameter of the operators; the errors of Redis are only logged.      *)
(***************************************************************************)
CONSTANTS
    Reader,     \* requests that may miss the cache at the same time
    NoCopy      \* the key is absent, or the reader has loaded nothing

VARIABLES
    copy,       \* the value of the key
    loaded,     \* what each reader took from the database and has not written yet
    tainted     \* history: is the copy known to miss a change (see Fill and Miss)?

cacheVars == <<copy, loaded, tainted>>

CacheInit ==
    /\ copy = NoCopy
    /\ loaded = [r \in Reader |-> NoCopy]
    /\ tainted = FALSE

CacheTypeOK(Value) ==
    /\ copy \in Value \cup {NoCopy}
    /\ loaded \in [Reader -> Value \cup {NoCopy}]
    /\ tainted \in BOOLEAN

Filling == {r \in Reader : loaded[r] # NoCopy}

(* A GET that finds nothing, or fails: the value comes from the database. *)
Load(r, value) ==
    /\ loaded[r] = NoCopy
    /\ loaded' = [loaded EXCEPT ![r] = value]
    /\ UNCHANGED <<copy, tainted>>

(* The SET, whenever it comes; value is what the database holds by now. *)
Fill(r, value) ==
    /\ loaded[r] # NoCopy
    /\ copy' = loaded[r]
    /\ tainted' = (loaded[r] # value)
    /\ loaded' = [loaded EXCEPT ![r] = NoCopy]

(* The SET fails, or the reader dies. *)
SkipFill(r) ==
    /\ loaded[r] # NoCopy
    /\ loaded' = [loaded EXCEPT ![r] = NoCopy]
    /\ UNCHANGED <<copy, tainted>>

(* invalidate: the DEL of a writer. *)
Drop ==
    /\ copy' = NoCopy
    /\ tainted' = FALSE
    /\ UNCHANGED loaded

(* A change whose DEL fails or never comes. *)
Miss == tainted' = TRUE /\ UNCHANGED <<copy, loaded>>

(* The key's time to live runs out. *)
Expire == copy # NoCopy /\ Drop

Outdated(value) == copy # NoCopy /\ copy # value
=============================================================================
