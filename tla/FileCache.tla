----------------------------- MODULE FileCache ------------------------------
(***************************************************************************)
(* The cache of responses (ngx_http_file_cache.c, and its use by           *)
(* ngx_http_upstream.c): files on disk, and a node for each key in memory  *)
(* shared by the workers, which counts the requests that use it.  The      *)
(* workers, the cache manager and the cache loader run beside each other;  *)
(* the mutex of the zone is released around every operation on a file.     *)
(*                                                                         *)
(* A node is a slot of the zone, and a pointer to it is its number: a slot *)
(* that is freed may be taken for another key.  Each request is served by  *)
(* a worker of its own, which may be killed.                               *)
(***************************************************************************)
EXTENDS Integers, Sequences, SequencesExt, FiniteSetsExt, TLC

CONSTANTS
    Requests, CacheKeys, Slots,
    Settings,        \* [min_uses, lock, use_stale, cold, disk, kills]
    Inactive, Valid, MaxSize, \* settings of the cache, in units of time and files
    MaxTime          \* bound

VARIABLES setup, node, queue, size, cold, disk, req, del, loader, time, kills

vars == <<setup, node, queue, size, cold, disk, req, del, loader, time, kills>>

Free == [key |-> "free"]

NoFile == [valid |-> -1]

Manager == "manager"

NewRequest(k) ==
    [pc |-> "new", key |-> k, node |-> 0, exists |-> FALSE, error |-> FALSE,
     lock |-> setup.lock, waited |-> FALSE, updating |-> FALSE, updated |-> FALSE,
     valid |-> 0, cacheable |-> TRUE, status |-> "miss", rv |-> "declined",
     saved |-> FALSE]

Done == [NewRequest("none") EXCEPT !.pc = "done", !.lock = FALSE, !.updated = TRUE]

(* The zone as ngx_http_file_cache_init leaves it; after a restart files   *)
(* of an earlier run are on the disk and the zone is cold.                 *)
Init ==
    /\ setup \in Settings
    /\ node = [s \in Slots |-> Free]
    /\ queue = << >>
    /\ size = 0
    /\ cold = setup.cold
    /\ disk = [k \in CacheKeys |-> IF k \in setup.disk THEN [valid |-> 1] ELSE NoFile]
    /\ req \in [Requests -> {NewRequest(k) : k \in CacheKeys}]
    /\ del = [a \in Requests \cup {Manager} |-> [node |-> 0, step |-> "none"]]
    /\ loader = IF setup.cold THEN setup.disk ELSE {}
    /\ time = 1
    /\ kills = setup.kills

other == <<setup, time, kills>>

Lookup(k) == {s \in Slots : node[s].key = k}

Step(r, new) == req' = [req EXCEPT ![r] = new]

----------------------------------------------------------------------------
(* ngx_http_file_cache_exists: the fields of a node for a request that     *)
(* does (held) or does not yet count in it; and what the caller is told.   *)
Renewed(n) == [n EXCEPT !.error = FALSE, !.exists = FALSE, !.valid = 0, !.fs_size = 0]

Touched(n) == [n EXCEPT !.expire = time + Inactive]

Counted(n, held) ==      \* uses is counted as far as it is compared
    IF held THEN n
    ELSE [n EXCEPT !.uses = Min({@ + 1, setup.min_uses}), !.count = @ + 1]

ExistsResult(n) ==
    CASE n.error -> IF n.valid < time THEN "declined" ELSE "ok"
      [] ~n.error -> IF n.exists \/ n.uses >= setup.min_uses THEN "ok" ELSE "again"

NewNode(k) ==
    [key |-> k, uses |-> 1, count |-> 1, updating |-> FALSE, deleting |-> FALSE,
     error |-> FALSE, exists |-> FALSE, valid |-> 0, fs_size |-> 0, expire |-> 0]

(* ngx_http_file_cache_open after exists: where the request goes, with the *)
(* result (rv) that a file which is not there would give.  A request that  *)
(* bypassed the cache comes from ngx_http_file_cache_create, which ignores *)
(* the result.                                                             *)
AfterExists(x, rc, n) ==
    LET y == [x EXCEPT !.error = n.error, !.exists = n.exists]
    IN  CASE x.status = "bypass" -> [y EXCEPT !.pc = "response"]
          [] x.status # "bypass" /\ rc = "again" ->
               [y EXCEPT !.pc = "fetch", !.cacheable = FALSE]
          [] x.status # "bypass" /\ rc = "ok" ->
               [y EXCEPT !.pc = CASE n.error -> "finalize"
                                  [] ~n.error /\ n.exists -> "file"
                                  [] OTHER -> "lock"]
          [] x.status # "bypass" /\ rc = "declined" ->
               IF setup.min_uses > 1
               THEN IF cold THEN [y EXCEPT !.pc = "file", !.rv = "scarce"]
                    ELSE [y EXCEPT !.pc = "fetch", !.cacheable = FALSE]
               ELSE [y EXCEPT !.pc = IF cold THEN "file" ELSE "lock"]

Found(r, s) ==
    LET x == req[r]
        n == Counted(node[s], x.node # 0)
        rc == ExistsResult(n)
        m == Touched(IF rc = "declined" THEN Renewed(n) ELSE n)
    IN  /\ node' = [node EXCEPT ![s] = m]
        /\ queue' = <<s>> \o Remove(queue, s)
        /\ Step(r, AfterExists([x EXCEPT !.node = s], rc, m))
        /\ UNCHANGED del

Inserted(r) ==
    /\ \E s \in Slots :
        /\ node[s] = Free
        /\ node' = [node EXCEPT ![s] = Touched(NewNode(req[r].key))]
        /\ queue' = <<s>> \o queue
        /\ Step(r, AfterExists([req[r] EXCEPT !.node = s], "declined", node'[s]))
    /\ UNCHANGED del

(* ngx_http_file_cache_forced_expire (at most 20 nodes are looked at,      *)
(* more than there are) and the first part of ngx_http_file_cache_delete:  *)
(* a node with a file is counted and marked, and the mutex released.       *)
Victim == LET idle == SelectSeq(queue, LAMBDA s : node[s].count = 0)
          IN  IF idle = << >> THEN 0 ELSE Last(idle)

BeginDeleteUncounted(a, s) ==
    IF node[s].exists
    THEN /\ size' = size - node[s].fs_size
         /\ node' = [node EXCEPT ![s].deleting = TRUE]
         /\ del' = [del EXCEPT ![a] = [node |-> s, step |-> "unlink"]]
         /\ UNCHANGED queue
    ELSE /\ node' = [node EXCEPT ![s] = Free]
         /\ queue' = Remove(queue, s)
         /\ UNCHANGED <<size, del>>

BeginDelete(a, s) ==
    IF node[s].exists
    THEN /\ size' = size - node[s].fs_size
         /\ node' = [node EXCEPT ![s].count = @ + 1, ![s].deleting = TRUE]
         /\ del' = [del EXCEPT ![a] = [node |-> s, step |-> "unlink"]]
         /\ UNCHANGED queue
    ELSE /\ node' = [node EXCEPT ![s] = Free]
         /\ queue' = Remove(queue, s)
         /\ UNCHANGED <<size, del>>

(* ngx_http_upstream_cache and the start of ngx_http_file_cache_open; or   *)
(* ngx_http_file_cache_create.                                             *)
Open(r) ==
    /\ req[r].pc \in {"new", "open", "create"}
    /\ del[r].node = 0
    /\ UNCHANGED <<cold, disk, loader>> /\ UNCHANGED other
    /\ \/ \E s \in IF req[r].node # 0 THEN {req[r].node} ELSE Lookup(req[r].key) :
             Found(r, s) /\ UNCHANGED size
       \/ req[r].node = 0 /\ Lookup(req[r].key) = {} /\ Inserted(r) /\ UNCHANGED size
       \/ /\ req[r].node = 0 /\ Lookup(req[r].key) = {}
          /\ \A s \in Slots : node[s] # Free
          /\ Step(r, [req[r] EXCEPT !.pc = "retry"])
          /\ IF Victim = 0 THEN UNCHANGED <<node, queue, size, del>> ELSE BeginDelete(r, Victim)
       \/ /\ req[r].pc = "new" /\ req[r].status = "miss"     \* proxy_cache_bypass
          /\ Step(r, [req[r] EXCEPT !.pc = "fetch", !.status = "bypass"])
          /\ UNCHANGED <<node, queue, size, del>>

(* The second allocation, which does not look the key up again.            *)
Retry(r) ==
    /\ req[r].pc = "retry"
    /\ del[r].node = 0
    /\ \/ Inserted(r)
       \/ /\ \A s \in Slots : node[s] # Free
          /\ Step(r, [req[r] EXCEPT !.pc = "finalize"])
          /\ UNCHANGED <<node, queue, del>>
    /\ UNCHANGED <<size, cold, disk, loader>> /\ UNCHANGED other

(* ngx_delete_file, and the end of ngx_http_file_cache_delete.             *)
Unlink(a) ==
    /\ del[a].step = "unlink"
    /\ disk' = [disk EXCEPT ![node[del[a].node].key] = NoFile]
    /\ del' = [del EXCEPT ![a].step = "deleted"]
    /\ UNCHANGED <<node, queue, size, cold, req, loader>> /\ UNCHANGED other

EndDelete(a) ==
    /\ del[a].step = "deleted"
    /\ LET s == del[a].node
           n == [node[s] EXCEPT !.count = @ - 1, !.deleting = FALSE]
       IN  /\ node' = [node EXCEPT ![s] = IF n.count = 0 THEN Free ELSE n]
           /\ queue' = IF n.count = 0 THEN Remove(queue, s) ELSE queue
    /\ del' = [del EXCEPT ![a] = [node |-> 0, step |-> "none"]]
    /\ UNCHANGED <<size, cold, disk, req, loader>> /\ UNCHANGED other

----------------------------------------------------------------------------
(* The file is opened, and its header read, outside the mutex              *)
(* (ngx_http_file_cache_read, a zone that is cold first).                  *)
OpenFile(r) ==
    /\ req[r].pc = "file"
    /\ LET f == disk[req[r].key]
       IN  Step(r, CASE f # NoFile -> [req[r] EXCEPT !.pc = "read", !.valid = f.valid]
                     [] f = NoFile /\ req[r].rv = "declined" -> [req[r] EXCEPT !.pc = "lock"]
                     [] OTHER -> [req[r] EXCEPT !.pc = "fetch", !.cacheable = FALSE])
    /\ UNCHANGED <<node, queue, size, cold, disk, del, loader>> /\ UNCHANGED other

ReadCold(r) ==
    /\ req[r].pc = "read"
    /\ Step(r, [req[r] EXCEPT !.pc = "test"])
    /\ LET s == req[r].node
       IN  IF cold /\ ~node[s].exists
           THEN /\ node' = [node EXCEPT ![s].uses = 1, ![s].exists = TRUE, ![s].fs_size = 1]
                /\ size' = size + 1
           ELSE UNCHANGED <<node, size>>
    /\ UNCHANGED <<queue, cold, disk, del, loader>> /\ UNCHANGED other

(* The file has expired: the first to see it updates it, and the others    *)
(* use it or fetch the response as well.                                   *)
TestValid(r) ==
    /\ req[r].pc = "test"
    /\ LET s == req[r].node
           fetch == [req[r] EXCEPT !.pc = "fetch", !.status = "expired", !.valid = 0]
       IN  CASE req[r].valid >= time ->
                  /\ Step(r, [req[r] EXCEPT !.pc = "finalize", !.status = "hit"])
                  /\ UNCHANGED node
             [] req[r].valid < time /\ ~node[s].updating ->
                  /\ node' = [node EXCEPT ![s].updating = TRUE]
                  /\ Step(r, [fetch EXCEPT !.updating = TRUE])
             [] OTHER ->
                  /\ Step(r, IF setup.use_stale
                             THEN [req[r] EXCEPT !.pc = "finalize", !.status = "updating"]
                             ELSE fetch)
                  /\ UNCHANGED node
    /\ UNCHANGED <<queue, size, cold, disk, del, loader>> /\ UNCHANGED other

(* ngx_http_file_cache_lock: proxy_cache_lock.                             *)
Lock(r) ==
    /\ req[r].pc = "lock"
    /\ LET s == req[r].node
       IN  CASE ~req[r].lock -> Step(r, [req[r] EXCEPT !.pc = "fetch"]) /\ UNCHANGED node
             [] req[r].lock /\ ~node[s].updating ->
                  /\ node' = [node EXCEPT ![s].updating = TRUE]
                  /\ Step(r, [req[r] EXCEPT !.pc = "fetch", !.updating = TRUE])
             [] OTHER -> Step(r, [req[r] EXCEPT !.pc = "wait", !.waited = TRUE]) /\ UNCHANGED node
    /\ UNCHANGED <<queue, size, cold, disk, del, loader>> /\ UNCHANGED other

(* ngx_http_file_cache_lock_wait_handler: the lock times out, or the       *)
(* update is over.  The request opens the cache again.                     *)
LockWait(r) ==
    /\ req[r].pc = "wait"
    /\ \/ Step(r, [req[r] EXCEPT !.pc = "open", !.lock = FALSE])
       \/ ~node[req[r].node].updating /\ Step(r, [req[r] EXCEPT !.pc = "open"])
    /\ UNCHANGED <<node, queue, size, cold, disk, del, loader>> /\ UNCHANGED other

----------------------------------------------------------------------------
(* The response of the server: its header tells that it is not kept        *)
(* (ngx_http_upstream_send_response; a request that bypassed the cache     *)
(* enters it now if it is), or it fails (and the failure may be kept), or  *)
(* a stale file stands in for it.                                          *)
Response(r) ==
    /\ req[r].pc = "fetch"
    /\ LET x == req[r]
       IN  \/ x.status = "bypass" /\ Step(r, [x EXCEPT !.pc = "create"])
           \/ Step(r, [x EXCEPT !.pc = "finalize", !.cacheable = FALSE])      \* no_cache
           \/ Step(r, [x EXCEPT !.pc = "finalize",
                                !.error = x.cacheable,
                                !.valid = IF x.cacheable THEN time + Valid ELSE @])
           \/ /\ setup.use_stale /\ x.status = "expired"
              /\ Step(r, [x EXCEPT !.pc = "finalize", !.status = "stale"])
    /\ UNCHANGED <<node, queue, size, cold, disk, del, loader>> /\ UNCHANGED other

(* ngx_http_upstream_process_request: the whole response is there and goes *)
(* into the cache (c->updating is cleared first, the node's flag last), or *)
(* it is broken off.  The file may not be renamed, or not tell its size.   *)
Rename(r) ==
    /\ req[r].pc = "response" \/ (req[r].pc = "fetch" /\ req[r].status # "bypass")
    /\ \/ /\ req[r].cacheable /\ req[r].node # 0
          /\ \E renamed, known \in BOOLEAN :
                /\ Step(r, [req[r] EXCEPT !.pc = "renamed", !.updated = TRUE, !.updating = FALSE,
                                          !.saved = renamed /\ known])
                /\ disk' = IF renamed THEN [disk EXCEPT ![req[r].key] = [valid |-> time + Valid]]
                           ELSE disk
       \/ /\ Step(r, [req[r] EXCEPT !.pc = "finalize"])
          /\ UNCHANGED disk
    /\ UNCHANGED <<node, queue, size, cold, del, loader>> /\ UNCHANGED other

Update(r) ==
    /\ req[r].pc = "renamed"
    /\ LET s == req[r].node
           fs_size == IF req[r].saved THEN 1 ELSE 0
       IN  /\ node' = [node EXCEPT ![s].count = @ - 1, ![s].fs_size = fs_size,
                                   ![s].exists = @ \/ req[r].saved, ![s].updating = FALSE]
           /\ size' = size + fs_size - node[s].fs_size
    /\ Step(r, [req[r] EXCEPT !.pc = "finalize"])
    /\ UNCHANGED <<queue, cold, disk, del, loader>> /\ UNCHANGED other

(* ngx_http_file_cache_free, called when the response is not kept and by   *)
(* the cleanup of the request's pool.                                      *)
Finalize(r) ==
    /\ req[r].pc = "finalize"
    /\ LET x == req[r]
           s == x.node
           n == [node[s] EXCEPT !.count = @ - 1, !.updating = @ /\ ~x.updating,
                                !.error = @ \/ x.error,
                                !.valid = IF x.error /\ x.valid # 0 THEN x.valid ELSE @]
           gone == ~x.error /\ ~n.exists /\ n.count = 0 /\ setup.min_uses = 1
       IN  IF x.updated \/ s = 0 THEN UNCHANGED <<node, queue>>
           ELSE /\ node' = [node EXCEPT ![s] = IF gone THEN Free ELSE n]
                /\ queue' = IF gone THEN Remove(queue, s) ELSE queue
    /\ Step(r, Done)
    /\ UNCHANGED <<size, cold, disk, del, loader>> /\ UNCHANGED other

(* A worker that is killed leaves the node as it is.                       *)
Kill(r) ==
    /\ kills > 0
    /\ req[r].pc \notin {"new", "done"}
    /\ kills' = kills - 1
    /\ Step(r, Done)
    /\ del' = [del EXCEPT ![r] = [node |-> 0, step |-> "none"]]
    /\ UNCHANGED <<setup, node, queue, size, cold, disk, loader, time>>

----------------------------------------------------------------------------
(* The cache manager: ngx_http_file_cache_expire, a node of the tail at a  *)
(* time, then forced expiry while the cache is too large.                  *)
ManagerExpire ==
    /\ del[Manager].node = 0
    /\ queue # << >>
    /\ LET s == Last(queue)
       IN  /\ node[s].expire <= time
           /\ \/ node[s].count = 0 /\ BeginDelete(Manager, s)
              \/ /\ node[s].count # 0 /\ ~node[s].deleting
                 /\ node' = [node EXCEPT ![s] = Touched(@)]
                 /\ queue' = <<s>> \o Remove(queue, s)
                 /\ UNCHANGED <<size, del>>
    /\ UNCHANGED <<cold, disk, req, loader>> /\ UNCHANGED other

ManagerForced ==
    /\ del[Manager].node = 0
    /\ size >= MaxSize
    /\ Victim # 0
    /\ BeginDelete(Manager, Victim)
    /\ UNCHANGED <<cold, disk, req, loader>> /\ UNCHANGED other

(* The cache loader: ngx_http_file_cache_add for each file found, and the  *)
(* end of the walk.  A file that finds no room in the zone is deleted.     *)
LoaderAdd(k) ==
    /\ cold /\ k \in loader
    /\ loader' = loader \ {k}
    /\ \/ \E s \in Lookup(k) :
             /\ node' = [node EXCEPT ![s] = Touched(@)]
             /\ queue' = <<s>> \o Remove(queue, s)
             /\ UNCHANGED <<size, disk>>
       \/ /\ Lookup(k) = {}
          /\ \E s \in Slots :
                /\ node[s] = Free
                /\ node' = [node EXCEPT ![s] =
                      Touched([NewNode(k) EXCEPT !.count = 0, !.exists = TRUE, !.fs_size = 1])]
                /\ queue' = <<s>> \o queue
          /\ size' = size + 1
          /\ UNCHANGED disk
       \/ /\ Lookup(k) = {} /\ \A s \in Slots : node[s] # Free
          /\ disk' = [disk EXCEPT ![k] = NoFile]
          /\ UNCHANGED <<node, queue, size>>
    /\ UNCHANGED <<cold, req, del>> /\ UNCHANGED other

LoaderEnd ==
    /\ cold /\ loader = {}
    /\ cold' = FALSE
    /\ UNCHANGED <<node, queue, size, disk, req, del, loader>> /\ UNCHANGED other

Tick ==
    /\ time < MaxTime
    /\ time' = time + 1
    /\ UNCHANGED <<setup, node, queue, size, cold, disk, req, del, loader, kills>>

Next ==
    \/ \E r \in Requests :
          \/ Open(r) \/ Retry(r) \/ OpenFile(r) \/ ReadCold(r) \/ TestValid(r)
          \/ Lock(r) \/ LockWait(r) \/ Response(r) \/ Rename(r)
          \/ Update(r) \/ Finalize(r) \/ Kill(r)
    \/ \E a \in Requests \cup {Manager} : Unlink(a) \/ EndDelete(a)
    \/ ManagerExpire \/ ManagerForced
    \/ \E k \in CacheKeys : LoaderAdd(k)
    \/ LoaderEnd
    \/ Tick

Spec == Init /\ [][Next]_vars

----------------------------------------------------------------------------
Holders(s) == {r \in Requests : req[r].node = s
                                /\ (~req[r].updated \/ req[r].pc = "renamed")}

Deleters(s) == {a \in DOMAIN del : del[a].node = s}

(* No request or deletion is left with a node that was freed, or taken for *)
(* another key, while the mutex was released around a file; a node counts  *)
(* those that use it (so that it can be removed when none does), and       *)
(* updating is set only while one of them updates the file (so that those  *)
(* who wait for it do not wait in vain).  After a worker was killed the    *)
(* count may be too high, and updating may stay.                           *)
NodesHeld ==
    /\ \A r \in Requests : \A s \in Slots : r \in Holders(s) => node[s].key = req[r].key
    /\ \A s \in Slots : node[s] = Free => Deleters(s) = {}
    /\ \A s \in Slots : node[s] # Free =>
         LET users == Cardinality(Holders(s)) + Cardinality(Deleters(s))
         IN  /\ node[s].count >= users
             /\ kills = setup.kills =>
                  /\ node[s].count = users
                  /\ node[s].updating =>
                       \E r \in Holders(s) : req[r].updating \/ req[r].pc = "renamed"
=============================================================================
