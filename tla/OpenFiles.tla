----------------------------- MODULE OpenFiles ------------------------------
(***************************************************************************)
(* The cache of open files of a worker (ngx_open_file_cache.c): requests   *)
(* open a name, and share the descriptor of its entry while the entry is   *)
(* valid.  An entry that has changed, or that is pushed out, leaves the    *)
(* tree and is closed by the last request that uses it.  The files are     *)
(* replaced and removed by others at any time.                             *)
(*                                                                         *)
(* The system gives the lowest free descriptor.  There are no vnode events *)
(* (they are of kqueue only), and no restrictions on symbolic links.  The  *)
(* times of an entry are kept as ages, and they and its uses are counted   *)
(* only as far as they are compared.                                       *)
(***************************************************************************)
EXTENDS Integers, Sequences, SequencesExt, FiniteSetsExt, TLC

CONSTANTS
    Users, Names, Entries,
    Policies,        \* [errors, min_uses]: open_file_cache_errors and _min_uses;
                     \* and changes, which bounds what others do to the files
    ValidFor, InactiveFor, MaxEntries       \* open_file_cache_valid, inactive=, max=

VARIABLES policy, tree, file, lru, fds, path, user, changes

vars == <<policy, tree, file, lru, fds, path, user, changes>>

NoFd == -1

Gone == [uniq |-> 0, dir |-> FALSE]         \* ENOENT

FreeEntry == [name |-> "free"]

Idle == [entry |-> 0, fd |-> NoFd, uniq |-> 0]

(* ngx_open_file_cache_init                                                *)
Init ==
    /\ policy \in Policies
    /\ tree = [n \in Names |-> 0]           \* the entry of a name, or 0
    /\ file = [e \in Entries |-> FreeEntry]
    /\ lru = << >>
    /\ fds = {}                             \* open descriptors: [fd, uniq]
    /\ path = [n \in Names |-> [uniq |-> 1, dir |-> FALSE]]
    /\ user = [u \in Users |-> Idle]
    /\ changes = 1

(* What an operation works on.                                             *)
State == [tree |-> tree, file |-> file, lru |-> lru, fds |-> fds]

Become(S) == tree' = S.tree /\ file' = S.file /\ lru' = S.lru /\ fds' = S.fds

NextFd(S) == CHOOSE i \in 0 .. Cardinality(S.fds) :
                 /\ \A x \in S.fds : x.fd # i
                 /\ \A j \in 0 .. i - 1 : \E x \in S.fds : x.fd = j

CloseFd(S, fd) == [S EXCEPT !.fds = {x \in @ : x.fd # fd}]

Current(S) == Cardinality({n \in Names : S.tree[n] # 0})      \* cache->current

Delete(S, e) ==      \* ngx_rbtree_delete and cache->current--
    [S EXCEPT !.tree = [n \in Names |-> IF @[n] = e THEN 0 ELSE @[n]]]

FreeFile(S, e) == [S EXCEPT !.file[e] = FreeEntry]

----------------------------------------------------------------------------
(* ngx_open_and_stat_file, with ngx_open_file_wrapper and ngx_file_info_   *)
(* wrapper: a descriptor that still is of the same file is kept, and so is *)
(* the entry of a directory; otherwise the name is opened.                 *)
Stat(S, name, fd, uniq) ==
    LET p == path[name]
        of == [fd |-> NoFd, uniq |-> p.uniq, dir |-> p.dir, err |-> FALSE]
        opened == NextFd(S)
    IN  CASE p = Gone -> [s |-> S, of |-> [of EXCEPT !.err = TRUE]]
          [] p # Gone /\ fd # NoFd /\ uniq = p.uniq -> [s |-> S, of |-> [of EXCEPT !.fd = fd]]
          [] p # Gone /\ p.dir -> [s |-> S, of |-> of]
          [] OTHER -> [s |-> [S EXCEPT !.fds = @ \cup {[fd |-> opened, uniq |-> p.uniq]}],
                       of |-> [of EXCEPT !.fd = opened]]

(* ngx_close_cached_file                                                   *)
close_cached_file(S, e, min_uses) ==
    LET f == S.file[e]
        T == IF f.close THEN S
             ELSE [S EXCEPT !.file[e].accessed = 0, !.lru = <<e>> \o Remove(@, e)]
        closed == [CloseFd(T, f.fd) EXCEPT !.file[e].fd = NoFd]
    IN  CASE ~f.close /\ (f.uses >= min_uses \/ f.count > 0) -> T
          [] f.close /\ f.count > 0 -> T
          [] ~f.close /\ f.uses < min_uses /\ f.count = 0 -> closed
          [] f.close /\ f.count = 0 -> FreeFile(closed, e)

(* ngx_expire_old_cached_files: the oldest by force when n is 0, and then  *)
(* one or two that are inactive.                                           *)
RECURSIVE expire_old(_, _)
expire_old(S, n) ==
    IF n = 3 \/ S.lru = << >> THEN S
    ELSE LET e == Last(S.lru)
             f == S.file[e]
             T == [Delete(S, e) EXCEPT !.lru = Front(@)]
         IN  CASE n # 0 /\ f.accessed <= InactiveFor -> S
               [] (n = 0 \/ f.accessed > InactiveFor) /\ ~f.err /\ ~f.dir ->
                    expire_old(close_cached_file([T EXCEPT !.file[e].close = TRUE], e, 0), n + 1)
               [] OTHER -> expire_old(FreeFile(T, e), n + 1)

----------------------------------------------------------------------------
(* ngx_open_cached_file, in the order of its labels.                       *)
Found(S, e) == [S EXCEPT !.file[e].accessed = 0, !.lru = <<e>> \o @]

Update(S, e, of) ==
    LET f == S.file[e]
        g == [f EXCEPT !.fd = of.fd, !.err = of.err, !.created = 0]
    IN  Found([S EXCEPT !.file[e] =
                 IF of.err THEN g
                 ELSE [g EXCEPT !.uniq = of.uniq, !.close = FALSE, !.dir = of.dir,
                                !.count = IF of.dir THEN @ ELSE @ + 1]], e)

Create(S, name, of) ==
    LET T == IF Current(S) >= MaxEntries THEN expire_old(S, 0) ELSE S
        e == CHOOSE x \in Entries : T.file[x] = FreeEntry
        new == [name |-> name, uses |-> 1, count |-> 0, fd |-> NoFd, err |-> FALSE,
                uniq |-> 0, close |-> FALSE, dir |-> FALSE, created |-> 0, accessed |-> 0]
    IN  [s |-> Update([T EXCEPT !.file[e] = new, !.tree[name] = e], e, of), e |-> e, of |-> of]

FailedFrees(S, e, of) ==
    [s |-> IF e = 0 THEN S ELSE FreeFile(CloseFd(Delete(S, e), S.file[e].fd), e),
     e |-> 0, of |-> [of EXCEPT !.err = TRUE]]

Failed(S, e, of) ==
    LET T == Delete(S, e)
    IN  [s |-> IF e = 0 THEN S
               ELSE IF S.file[e].count > 0 THEN [T EXCEPT !.file[e].close = TRUE]
               ELSE FreeFile(CloseFd(T, S.file[e].fd), e),
         e |-> 0, of |-> [of EXCEPT !.err = TRUE]]

Refused(of) == of.err /\ ~policy.errors

(* The entry is there and still valid, or was not used often enough to be  *)
(* kept open.                                                              *)
Hit(S, f, e) ==
    [s |-> Found([S EXCEPT !.file[e].count = IF f.err \/ f.dir THEN @ ELSE @ + 1], e), e |-> e,
     of |-> [fd |-> f.fd, uniq |-> f.uniq, dir |-> f.dir, err |-> f.err]]

Reopened(e, got) ==
    IF Refused(got.of) THEN Failed(got.s, e, got.of)
    ELSE [s |-> Update(got.s, e, got.of), e |-> e, of |-> got.of]

Missed(name, got) ==
    IF Refused(got.of) THEN Failed(got.s, 0, got.of) ELSE Create(got.s, name, got.of)

(* The entry is there, but not to be trusted any more.                     *)
Retested(f, e, name, got) ==
    LET of == got.of
        same == \/ of.dir /\ (f.dir \/ f.err)
                \/ ~of.dir /\ ~of.err /\ ~f.dir /\ ~f.err /\ of.uniq = f.uniq
                \/ of.err /\ (f.err \/ f.dir)
        file_now == ~of.dir /\ ~of.err /\ (f.dir \/ f.err)
    IN  CASE Refused(of) -> Failed(got.s, e, of)
          [] ~Refused(of) /\ (same \/ file_now) ->
               [s |-> Update(got.s, e, of), e |-> e, of |-> of]
          [] ~Refused(of) /\ ~same /\ ~file_now /\ f.count = 0 ->
               [s |-> Update(CloseFd(got.s, f.fd), e, of), e |-> e, of |-> of]
          [] OTHER -> Create([Delete(got.s, e) EXCEPT !.file[e].close = TRUE], name, of)

open_cached_file(S, name) ==
    LET e == S.tree[name]
        f == S.file[e]
        T == [S EXCEPT !.file[e].uses = Min({@ + 1, policy.min_uses}), !.lru = Remove(@, e)]
    IN  CASE e = 0 -> Missed(name, Stat(S, name, NoFd, 0))
          [] e # 0 /\ f.fd = NoFd /\ ~f.err /\ ~f.dir -> Reopened(e, Stat(T, name, NoFd, 0))
          [] e # 0 /\ (f.fd # NoFd \/ f.err \/ f.dir) /\ f.created < ValidFor ->
               Hit(T, f, e)
          [] OTHER -> Retested(f, e, name, Stat(T, name, f.fd, f.uniq))

Open(u, name) ==
    /\ user[u] = Idle
    /\ \E x \in {open_cached_file(State, name)} :
           /\ Become(x.s)
           /\ user' = [user EXCEPT ![u] = IF x.of.err \/ x.of.dir THEN Idle
                                          ELSE [entry |-> x.e, fd |-> x.of.fd, uniq |-> x.of.uniq]]
    /\ UNCHANGED <<policy, path, changes>>

(* ngx_open_file_cleanup, when the request ends.                           *)
Cleanup(u) ==
    /\ user[u] # Idle
    /\ LET e == user[u].entry
           S == [State EXCEPT !.file[e].count = @ - 1]
       IN  Become(expire_old(close_cached_file(S, e, policy.min_uses), 1))
    /\ user' = [user EXCEPT ![u] = Idle]
    /\ UNCHANGED <<policy, path, changes>>

(* ngx_open_file_cache_cleanup, when the worker exits.                     *)
RECURSIVE Emptied(_)
Emptied(S) ==
    IF S.lru = << >> THEN S
    ELSE LET e == Last(S.lru)
             T == [Delete(S, e) EXCEPT !.lru = Front(@), !.file[e].close = TRUE,
                                       !.file[e].count = 0]
         IN  Emptied(IF S.file[e].err \/ S.file[e].dir THEN FreeFile(T, e)
                     ELSE close_cached_file(T, e, 0))

Exit ==
    /\ \A u \in Users : user[u] = Idle
    /\ Become(Emptied(State))
    /\ UNCHANGED <<policy, path, user, changes>>

(* Others replace a file, put a directory in its place or remove it.       *)
Change(name) ==
    /\ changes < policy.changes
    /\ changes' = changes + 1
    /\ \E p \in {Gone, [uniq |-> changes', dir |-> TRUE], [uniq |-> changes', dir |-> FALSE]} :
          path' = [path EXCEPT ![name] = p]
    /\ UNCHANGED <<policy, tree, file, lru, fds, user>>

Older(f) ==
    IF f = FreeEntry THEN f
    ELSE [f EXCEPT !.created = Min({@ + 1, ValidFor}), !.accessed = Min({@ + 1, InactiveFor + 1})]

Tick ==
    /\ file' = [e \in Entries |-> Older(file[e])]
    /\ UNCHANGED <<policy, tree, lru, fds, path, user, changes>>

Next ==
    \/ \E u \in Users : Cleanup(u) \/ \E n \in Names : Open(u, n)
    \/ \E n \in Names : Change(n)
    \/ Exit
    \/ Tick

Spec == Init /\ [][Next]_vars

----------------------------------------------------------------------------
(* A request keeps the file that it opened, whatever the cache does with   *)
(* the entry meanwhile: its descriptor is open and of the same file.  And  *)
(* each open descriptor belongs to one entry, which is in the cache or has *)
(* users, so that it will be closed.                                       *)
DescriptorsOwned ==
    /\ \A u \in Users : user[u] # Idle =>
         /\ [fd |-> user[u].fd, uniq |-> user[u].uniq] \in fds
         /\ file[user[u].entry].fd = user[u].fd
    /\ \A x \in fds :
         /\ Cardinality({e \in Entries : file[e] # FreeEntry /\ file[e].fd = x.fd}) = 1
         /\ \A e \in Entries : file[e] # FreeEntry /\ file[e].fd = x.fd =>
              \/ tree[file[e].name] = e /\ e \in ToSet(lru)
              \/ \E u \in Users : user[u].entry = e
=============================================================================
