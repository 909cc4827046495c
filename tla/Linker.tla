-------------------------------- MODULE Linker --------------------------------
(***************************************************************************)
(* The dynamic linker as patched for this device (linker.cpp): libraries   *)
(* are found by name, loaded with what they need, bound to each other,     *)
(* initialised, shared by counted groups, and unloaded.  All of it runs    *)
(* under the lock of dlfcn.cpp, but init and fini functions run inside it  *)
(* and may open and close libraries themselves, so the calls nest: `stack` *)
(* holds the ones that have not returned.                                  *)
(*                                                                         *)
(* A file is a record of what its dynamic section says; a library is       *)
(* loaded at most once from a file (no ANDROID_DLEXT_FORCE_LOAD), so its   *)
(* soinfo has the name of the file.  Hash tables, addresses and segments   *)
(* are left out; any load or link may fail for reasons of its own.         *)
(***************************************************************************)
EXTENDS Integers, Sequences, SequencesExt, FiniteSets

CONSTANTS
  Systems,     \* by name: the files, the directories, LD_PRELOADs, what is opened and how
  MaxOpens,    \* bound: calls of a behaviour
  MaxUnlucky   \* bound: the load or link that fails is one of the first so many

VARIABLES
  fs,          \* the file system
  ln,          \* the linker's data: soinfos, solist, the debugger's list, g_ld_library_paths
  stack,       \* calls in progress, innermost first
  handles,     \* what the client got from dlopen and has not closed
  opens,       \* calls so far
  appSdk,      \* get_application_target_sdk_version
  life         \* "boot", "up", "exited", or "wedged": a failed open left its libraries

linkerVars == <<fs, ln, stack, handles, opens, appSdk, life>>

Api == 23
None == "none"
main == "/main"
libdl == "/dl"
Fs == Systems[fs]
(* What a file's dynamic section says: flags, versions, symbols, needs;    *)
(* bad is what is wrong with it.                                           *)
File(l) == Fs.files[l]
WellFormed(l) == File(l).bad # "dynamic"
-------------------------------------------------------------------------------
(* soinfo::soinfo; rtld_flags_, dt_flags_1_ and flags_ are sets.           *)
soinfo(flags) ==
  [linked |-> FALSE, root |-> None, refc |-> 0, kids |-> <<>>, pars |-> <<>>,
   rtld |-> flags, global |-> FALSE, soname |-> None, called |-> FALSE,
   done |-> FALSE, sdk |-> 0, bound |-> <<>>]

Live(w) == DOMAIN w.so
Root(w, l) == w.so[l].root
soinfo_alloc(w, l, flags) ==
  [w EXCEPT !.so = [k \in Live(w) \cup {l} |-> IF k = l THEN soinfo(flags) ELSE w.so[k]],
            !.list = Append(@, l)]

set_dt_flags_1(i, global, nodelete) ==
  [i EXCEPT !.rtld = @ \cup (IF global THEN {"GLOBAL"} ELSE {})
                       \cup (IF nodelete THEN {"NODELETE"} ELSE {}),
            !.global = global]
can_unload(w, l) == w.so[l].rtld \cap {"NODELETE", "GLOBAL"} = {}
IncrementOwnCount(w, l) == [w EXCEPT !.so[l].refc = @ + 1]  \* mutant: not the root's
increment_ref_count(w, l) == [w EXCEPT !.so[Root(w, l)].refc = @ + 1]
decrement_ref_count(w, l) == [w EXCEPT !.so[Root(w, l)].refc = @ - 1]
get_target_sdk_version(w, l) == w.so[Root(w, l)].sdk

add_child(w, l, child) ==
  [w EXCEPT !.so[child].pars = Append(@, l), !.so[l].kids = Append(@, child)]

(* A parent that was freed is zeroed memory: an empty list of children.    *)
remove_all_links(w, l) ==
  LET without(s) == SelectSeq(s, LAMBDA x : x # l)
  IN [w EXCEPT !.so = [k \in Live(w) |->
        CASE k = l -> [w.so[k] EXCEPT !.kids = <<>>, !.pars = <<>>]
          [] OTHER -> [w.so[k] EXCEPT
               !.pars = IF Contains(w.so[l].kids, k) THEN without(@) ELSE @,
               !.kids = IF Contains(w.so[l].pars, k) THEN without(@) ELSE @]]]

soinfo_free(w, l) ==
  LET u == remove_all_links(w, l)
  IN [u EXCEPT !.so = [k \in Live(u) \ {l} |-> u.so[k]],
               !.list = SelectSeq(@, LAMBDA x : x # l)]

(* The list gdb walks; the program heads it from the start.                *)
notify_gdb_of_load(w, l) == IF l = main THEN w ELSE [w EXCEPT !.gdb = Append(@, l)]
notify_gdb_of_unload(w, l) ==
  IF l = main THEN w ELSE [w EXCEPT !.gdb = SelectSeq(@, LAMBDA x : x # l)]
-------------------------------------------------------------------------------
(* Symbols.  A definition is [s, v, hidden], v = "" when it is bound to no *)
(* version; a versioned file has a versym table.                           *)
Absent == 0
Malformed == -1

find_verdef_version_index(f, v) ==
  IF v = "" THEN "not needed"
  ELSE IF \E i \in 1 .. Len(f.defs) : f.defs[i].v = v THEN v ELSE ""
check_symbol_version(f, need, d) == need = "not needed" \/ ~f.versioned \/ d.v = need
is_versym_hidden(f, d) == f.versioned /\ d.hidden

InChain(f, s, v) ==
  LET need == find_verdef_version_index(f, v)
      match(d) == /\ d.s = s /\ check_symbol_version(f, need, d)
                  /\ ~(need = "not needed" /\ is_versym_hidden(f, d))
  IN SelectInSeq(f.defs, match)

(* The bloom filter answers before the versions are looked at.             *)
gnu_lookup(f, s, v) ==
  IF \A i \in 1 .. Len(f.defs) : f.defs[i].s # s THEN Absent
  ELSE IF f.bad = "versions" /\ v # "" THEN Malformed
  ELSE InChain(f, s, v)
elf_lookup(f, s, v) ==
  IF f.bad = "versions" /\ v # "" THEN Malformed ELSE InChain(f, s, v)
find_symbol_by_name(l, s, v) ==
  IF File(l).gnu THEN gnu_lookup(File(l), s, v) ELSE elf_lookup(File(l), s, v)

(* The first library of the sequence that answers, if it does not fail.    *)
Answer(libs, i, s, v) ==
  IF i = 0 THEN [ok |-> TRUE, lib |-> None]
  ELSE [ok |-> find_symbol_by_name(libs[i], s, v) # Malformed, lib |-> libs[i]]
FirstWith(libs, s, v) ==
  Answer(libs, SelectInSeq(libs, LAMBDA l : find_symbol_by_name(l, s, v) # Absent), s, v)

soinfo_do_lookup(l, s, v, global, local) ==
  FirstWith(IF File(l).symbolic
            THEN <<l>> \o global \o SelectSeq(local, LAMBDA x : x # l)
            ELSE global \o local, s, v)

RECURSIVE Breadth(_, _, _)
Breadth(w, visit, visited) ==
  IF visit = <<>> THEN visited
  ELSE IF Contains(visited, Head(visit)) THEN Breadth(w, Tail(visit), visited)
  ELSE Breadth(w, Tail(visit) \o w.so[Head(visit)].kids, Append(visited, Head(visit)))
walk_dependencies_tree(w, roots) == Breadth(w, roots, <<>>)

(* dlsym with a handle; skip is the library to start after, or None.       *)
Behind(tree, skip) ==
  LET at == SelectInSeq(tree, LAMBDA x : x = skip)
  IN IF skip = None THEN tree
     ELSE IF at = 0 THEN <<>> ELSE SubSeq(tree, at + 1, Len(tree))
LibraryOf(found) == IF found.ok THEN found.lib ELSE None
dlsym_handle_lookup(w, root, skip, s) ==
  LibraryOf(FirstWith(Behind(walk_dependencies_tree(w, <<root>>), skip), s, ""))

(* dlsym with RTLD_DEFAULT or, next, RTLD_NEXT.                            *)
InGroup(w, found, s, caller, next) ==
  IF ~found.ok THEN None
  ELSE IF found.lib = None /\ "GLOBAL" \notin w.so[caller].rtld
       THEN dlsym_handle_lookup(w, Root(w, caller), IF next THEN caller ELSE None, s)
       ELSE found.lib
dlsym_linear_lookup(w, s, caller, next) ==
  LET at == SelectInSeq(w.list, LAMBDA l : l = caller)
      start == IF next THEN SubSeq(w.list, at + 1, Len(w.list)) ELSE w.list
      seen(l) == "GLOBAL" \in w.so[l].rtld \/ get_target_sdk_version(w, l) <= 22
  IN InGroup(w, FirstWith(SelectSeq(start, seen), s, ""), s, caller, next)
-------------------------------------------------------------------------------
(* Finding and loading.  Results are [ok, w, ...]; w.bad counts down to    *)
(* the load or link that fails.                                            *)
Unlucky(w) == w.bad = 1
Tried(w) == [w EXCEPT !.bad = IF @ = 0 THEN 0 ELSE @ - 1]

(* A path is opened as it is, a soname in g_ld_library_paths and then in   *)
(* kDefaultLdPaths.                                                        *)
parse_LD_LIBRARY_PATH(w, path) == [w EXCEPT !.paths = path]
open_library_on_ld_library_path(w) == w.paths
open_library_on_default_path == <<"/vendor/lib", "/system/lib">>
open_library(w, name) ==
  IF name \in DOMAIN Fs.files THEN name
  ELSE LET dirs == open_library_on_ld_library_path(w) \o open_library_on_default_path
           i == SelectInSeq(dirs, LAMBDA d : <<d, name>> \in DOMAIN Fs.dirs)
       IN IF i = 0 THEN None ELSE Fs.dirs[<<dirs[i], name>>]

Soname(l) ==
  IF File(l).soname = None /\ l # main /\ appSdk <= 22 THEN File(l).base ELSE File(l).soname
prelink_image(w, l) ==
  LET f == File(l)
      i == set_dt_flags_1(w.so[l], f.global, f.nodelete)
  IN [ok |-> WellFormed(l), w |-> [w EXCEPT !.so[l] = [i EXCEPT !.soname = Soname(l)]]]

fix_dt_needed(need) ==
  IF appSdk <= 22 /\ need \in DOMAIN Fs.files THEN Fs.files[need].base ELSE need
for_each_dt_needed(l) == [i \in 1 .. Len(File(l).needs) |-> fix_dt_needed(File(l).needs[i])]

Task(name, by) == [name |-> name, by |-> by]
Refused(w) == [ok |-> FALSE, w |-> w, si |-> None, tasks |-> <<>>]
Loaded(w, l, tasks) == [ok |-> TRUE, w |-> w, si |-> l, tasks |-> tasks]

Prelinked(r, l) ==
  LET needs == for_each_dt_needed(l)
  IN IF ~r.ok THEN Refused(soinfo_free(r.w, l))
     ELSE Loaded(r.w, l, [i \in 1 .. Len(needs) |-> Task(needs[i], l)])
LoadFile(w0, l, flags) ==
  LET w == Tried(w0)
  IN IF l = None THEN Refused(w)
     ELSE IF l \in Live(w) THEN Loaded(w, l, <<>>)
     ELSE IF "NOLOAD" \in flags \/ Unlucky(w0) THEN Refused(w)
     ELSE Prelinked(prelink_image(soinfo_alloc(w, l, flags), l), l)
(* fd is the file the caller has opened for the library, or None.          *)
load_library(w, name, flags, fd) ==
  LoadFile(w, IF fd # None THEN fd ELSE open_library(w, name), flags)

FirstOf(libs) == IF libs = <<>> THEN None ELSE Head(libs)
(* [hit, candidate]: a library of that soname that can be taken without    *)
(* looking further, or one to fall back on.                                *)
find_loaded_library_by_soname(w, name) ==
  LET named(l) == w.so[l].soname = name
      sure(l) == /\ named(l)
                 /\ \/ l = libdl \/ w.so[l].global \/ ~w.so[l].linked
                    \/ get_target_sdk_version(w, l) = appSdk
  IN IF name \in DOMAIN Fs.files THEN [hit |-> FALSE, candidate |-> None]
     ELSE [hit |-> \E l \in ToSet(w.list) : sure(l),
           candidate |-> FirstOf(SelectSeq(w.list, sure) \o SelectSeq(w.list, named))]

FallBack(r, candidate) ==
  IF ~r.ok /\ candidate # None THEN Loaded(r.w, candidate, <<>>) ELSE r
find_library_internal(w, name, flags, fd) ==
  LET found == find_loaded_library_by_soname(w, name)
  IN IF found.hit THEN Loaded(w, found.candidate, <<>>)
     ELSE FallBack(load_library(w, name, flags, fd), found.candidate)

make_global_group(w) ==
  SelectSeq(w.list, LAMBDA l : l # libdl /\ w.so[l].global)
-------------------------------------------------------------------------------
(* Binding.  A reference is [s, v, weak, type], s = "" for one without a   *)
(* symbol.                                                                 *)
init_verneed(w, l) ==
  \A n \in File(l).verneed : \E i \in 1 .. Len(w.so[l].kids) : w.so[w.so[l].kids[i]].soname = n.soname
init_verdef(l) == File(l).bad # "versions"
lookup_version_info(l, v) ==
  \/ v = ""
  \/ \E n \in File(l).verneed : n.v = v
  \/ \E i \in 1 .. Len(File(l).defs) : File(l).defs[i].v = v

WeakTypes == {"JUMP_SLOT", "GLOB_DAT", "RELATIVE", "IRELATIVE", "ABS32"}
KnownTypes == WeakTypes \cup {"REL32"}   \* R_ARM_COPY and the rest are refused

(* The library each reference is bound to (None: to no address).           *)
Found(ref, r) ==
  IF ~r.ok THEN [ok |-> FALSE, lib |-> None]
  ELSE [ok |-> r.lib # None \/ (ref.weak /\ ref.type \in WeakTypes), lib |-> r.lib]
Resolve(l, ref, global, local) ==
  IF ref.s = "" THEN [ok |-> TRUE, lib |-> l]
  ELSE IF ~lookup_version_info(l, ref.v) THEN [ok |-> FALSE, lib |-> None]
  ELSE Found(ref, soinfo_do_lookup(l, ref.s, ref.v, global, local))
Relocated(w, l, refs, to) ==
  [ok |-> \A i \in 1 .. Len(refs) : to[i].ok /\ refs[i].type \in KnownTypes,
   w |-> [w EXCEPT !.so[l].bound = [i \in 1 .. Len(refs) |-> to[i].lib]]]
relocate(w, l, global, local) ==
  LET refs == File(l).refs
  IN Relocated(w, l, refs, [i \in 1 .. Len(refs) |-> Resolve(l, refs[i], global, local)])

(* Text relocations are let through (LEGACY_BLOB_COMPATIBLE).              *)
Bound(w, l, r) ==
  IF r.ok THEN [ok |-> TRUE, w |-> notify_gdb_of_load(r.w, l)] ELSE [ok |-> FALSE, w |-> w]
link_image(w0, l, global, local) ==
  LET w == [Tried(w0) EXCEPT !.so[l].root = Head(local),
                             !.so[l].sdk = IF Head(local) = l THEN appSdk ELSE @]
  IN IF ~(init_verneed(w, l) /\ init_verdef(l)) \/ Unlucky(w0) THEN [ok |-> FALSE, w |-> w]
     ELSE Bound(w, l, relocate(w, l, global, local))

(* One task: load or find the library, tie it to what needs it, and count  *)
(* one more user when its group is already linked.                         *)
Needed(w, l, by) == IF by = None THEN w ELSE add_child(w, by, l)
OneMoreUser(w, l) == IF w.so[l].linked THEN increment_ref_count(w, l) ELSE w
Preloaded(w, l, preload) ==
  IF preload THEN [w EXCEPT !.so[l] = set_dt_flags_1(@, TRUE, FALSE)] ELSE w
TaskDone(a, by, r) ==
  IF ~r.ok THEN [a EXCEPT !.ok = FALSE, !.w = r.w]
  ELSE [a EXCEPT !.w = Preloaded(OneMoreUser(Needed(r.w, r.si, by), r.si), r.si,
                                 Len(a.sis) < a.preloads),
                 !.tasks = Tail(@) \o r.tasks,
                 !.sis = IF Len(@) < a.count THEN Append(@, r.si) ELSE @]
RECURSIVE LoadTasks(_)
LoadTasks(a) ==
  IF a.tasks = <<>> \/ ~a.ok THEN a
  ELSE LET t == Head(a.tasks)
       IN LoadTasks(TaskDone(a, t.by,
            find_library_internal(a.w, t.name, a.flags, IF t.by = None THEN a.fd ELSE None)))

SetLinked(r, l) ==
  [ok |-> r.ok, w |-> IF r.ok THEN [r.w EXCEPT !.so[l].linked = TRUE] ELSE r.w]
LinkOne(a, l, global, local) ==
  IF ~a.ok \/ a.w.so[l].linked THEN a ELSE SetLinked(link_image(a.w, l, global, local), l)

(* [ok, w, sis]; on failure the caller unloads sis.  The group that is     *)
(* linked here gets its first user.                                        *)
GroupLinked(a, root, r) ==
  [ok |-> r.ok, sis |-> a.sis,
   w |-> IF a.w.so[root].linked THEN r.w ELSE increment_ref_count(r.w, root)]
LinkGroup(a, global, local) ==
  GroupLinked(a, Head(local),
    FoldLeft(LAMBDA b, l : LinkOne(b, l, global, local), [ok |-> TRUE, w |-> a.w], local))
LinkLoaded(a, start, global) ==
  IF ~a.ok THEN [ok |-> FALSE, w |-> a.w, sis |-> a.sis]
  ELSE LinkGroup(a, global,
                 walk_dependencies_tree(a.w, IF start = None THEN a.sis ELSE <<start>>))
find_libraries(w, start, names, preloads, flags, fd) ==
  LinkLoaded(LoadTasks([ok |-> TRUE, w |-> w, start |-> start, flags |-> flags, fd |-> fd,
                        preloads |-> preloads, count |-> Len(names), sis |-> <<>>,
                        tasks |-> [i \in 1 .. Len(names) |-> Task(names[i], start)]]),
             start, make_global_group(w))
-------------------------------------------------------------------------------
(* Unloading.  The group is taken apart depth first; what it needed from   *)
(* other groups is unloaded afterwards.                                    *)
RECURSIVE Collect(_)
Collect(a) ==
  IF a.visit = <<>> THEN a
  ELSE LET l == Head(a.visit)
           kids == SelectSeq(a.w.so[l].kids, LAMBDA k : ~Contains(Append(a.local, l), k))
           ext(k) == a.w.so[k].linked /\ Root(a.w, k) # a.root
       IN IF Contains(a.local, l) THEN Collect([a EXCEPT !.visit = Tail(@)])
          ELSE Collect([a EXCEPT !.w.so[l].kids = <<>>, !.local = Append(@, l),
                  !.ext = @ \o SelectSeq(kids, ext),
                  !.visit = Reverse(SelectSeq(kids, LAMBDA k : ~ext(k))) \o Tail(@)])

(* A call in progress: of a constructor with the children still to visit,  *)
(* of an unload with the libraries to destroy, to free and to let go.      *)
Frame(k, l, todo) == [k |-> k, l |-> l, todo |-> todo]
UnloadFrame(l, todo, free, ext) ==
  [k |-> "unload", l |-> l, todo |-> todo, free |-> free, ext |-> ext]

Unloading(root, c) ==
  [w |-> c.w, frames |-> <<UnloadFrame(root, c.local, c.local, c.ext)>>]
(* [w, frames]: the call in progress, if there is anything to unload.      *)
soinfo_unload(w, l) ==
  LET root == IF w.so[l].linked THEN Root(w, l) ELSE l
      u == IF w.so[root].linked THEN decrement_ref_count(w, root) ELSE w
  IN IF ~can_unload(w, root) THEN [w |-> w, frames |-> <<>>]
     ELSE IF w.so[root].linked /\ u.so[root].refc # 0 THEN [w |-> u, frames |-> <<>>]
     ELSE Unloading(root, Collect([w |-> u, root |-> root, local |-> <<>>, ext |-> <<>>,
                                   visit |-> <<root>>]))

ConstructAlone(w, l) ==  \* mutant: the children are not visited
  IF w.so[l].called THEN [w |-> w, frames |-> <<>>]
  ELSE [w |-> [w EXCEPT !.so[l].called = TRUE], frames |-> <<Frame("ctor", l, <<>>)>>]
(* [w, frames]: constructors_called is set before anything is called.      *)
call_constructors(w, l) ==
  IF w.so[l].called THEN [w |-> w, frames |-> <<>>]
  ELSE [w |-> [w EXCEPT !.so[l].called = TRUE],
        frames |-> <<Frame("ctor", l, w.so[l].kids)>>]

-------------------------------------------------------------------------------
(* The program.                                                            *)
LinkerInit ==
  /\ fs \in DOMAIN Systems
  /\ ln = [so |-> [l \in {libdl} |-> [soinfo({}) EXCEPT !.linked = TRUE, !.root = libdl,
             !.soname = "dl", !.called = TRUE, !.done = TRUE, !.sdk = Api]],
           list |-> <<libdl>>, gdb |-> <<>>, paths |-> <<>>, bad |-> 0]
  /\ stack = <<>> /\ handles = [l \in DOMAIN Fs.files |-> 0] /\ opens = 0
  /\ appSdk = Api /\ life = "boot"

Calm == opens < MaxOpens /\ opens' = opens + 1
(* The client's own code runs: no call is in progress, or the innermost    *)
(* one is inside an init or a fini function.  A fini function only closes. *)
ClientRuns == life = "up" /\ (stack # <<>> => Head(stack).k \in {"init", "fini"})
UnluckyAt(w, b) == [w EXCEPT !.bad = b]
Settled(w) == [w EXCEPT !.bad = 0]

Exit == life' = "exited" /\ UNCHANGED <<ln, stack>>
__linker_init_post_relocation ==
  /\ life = "boot"
  /\ \E preload \in Fs.preloads, path \in {<<>>, <<"/app">>}, b \in 0 .. MaxUnlucky :
       LET m0 == UnluckyAt(soinfo_alloc(ln, main, {"GLOBAL"}), b)
           w == [parse_LD_LIBRARY_PATH(m0, path) EXCEPT !.gdb = <<main>>]
           names == preload \o for_each_dt_needed(main)
           Link(m) == find_libraries(m, main, names, Len(preload), {"GLOBAL"}, None)
       IN \E p \in {prelink_image(w, main)} :
            IF ~p.ok THEN Exit
            ELSE \E r \in {Link([p.w EXCEPT !.so[main] = set_dt_flags_1(@, TRUE, FALSE)])} :
                   IF ~r.ok THEN Exit
                   ELSE \E c \in {call_constructors(r.w, main)} :
                          ln' = Settled(c.w) /\ stack' = c.frames /\ life' = "up"
  /\ UNCHANGED <<fs, handles, opens, appSdk>>

(* find_library("") is the program, whose count is left alone.             *)
find_library(w, o) ==
  IF o.name = "" THEN [ok |-> TRUE, w |-> w, sis |-> <<main>>]
  ELSE find_libraries(w, None, <<o.name>>, 0, o.flags, o.fd)
Opened(c, l) ==
  /\ ln' = Settled(c.w) /\ stack' = c.frames \o <<Frame("open", l, <<>>)>> \o stack
  /\ UNCHANGED life
OpenFailed(u) ==
  /\ ln' = Settled(u.w) /\ stack' = u.frames \o stack
  /\ life' = IF u.frames = <<>> THEN "wedged" ELSE "up"
do_dlopen ==
  /\ ClientRuns /\ Calm /\ (stack # <<>> => Head(stack).k # "fini")
  /\ \E o \in Fs.opens, b \in 0 .. MaxUnlucky :
       \E r \in {find_library(IF o.name = "" THEN ln ELSE UnluckyAt(ln, b), o)} :
         IF r.ok THEN Opened(call_constructors(r.w, r.sis[1]), r.sis[1])
         ELSE IF r.sis = <<>> THEN ln' = Settled(r.w) /\ UNCHANGED <<stack, life>>
         ELSE OpenFailed(soinfo_unload(r.w, r.sis[1]))
  /\ UNCHANGED <<fs, handles, appSdk>>

(* A handle is closed as often as it was given out.                        *)
do_dlclose ==
  /\ ClientRuns /\ Calm
  /\ \E l \in DOMAIN handles :
       /\ handles[l] > 0
       /\ LET u == soinfo_unload(ln, l)
          IN ln' = u.w /\ stack' = u.frames \o stack
       /\ handles' = [handles EXCEPT ![l] = @ - 1]
  /\ UNCHANGED <<fs, appSdk, life>>

do_android_update_LD_LIBRARY_PATH ==
  /\ ClientRuns /\ Calm
  /\ ln.paths = <<>> /\ ln' = parse_LD_LIBRARY_PATH(ln, <<"/app">>)
  /\ UNCHANGED <<fs, stack, handles, appSdk, life>>

(* dlfcn.cpp: the zygote's child says what its application was built for.  *)
set_application_target_sdk_version ==
  /\ ClientRuns /\ Calm
  /\ appSdk = Api /\ appSdk' = 22
  /\ UNCHANGED <<fs, ln, stack, handles, life>>
-------------------------------------------------------------------------------
(* The calls in progress go on.                                            *)
Top == Head(stack)
Going(k) == life = "up" /\ stack # <<>> /\ Top.k = k
GoesOn(frames) == stack' = frames \o Tail(stack)
Quiet == UNCHANGED <<fs, opens, appSdk, life>>

(* call_function and call_array: a library's init functions, or its fini   *)
(* functions, all in one frame.                                            *)
call_functions(k, l) == <<Frame(k, l, <<>>)>>
(* call_constructors: first the children, then the init functions.         *)
Construct ==
  /\ Going("ctor") /\ Quiet /\ UNCHANGED handles
  /\ IF Top.todo = <<>>
     THEN GoesOn(call_functions("init", Top.l)) /\ UNCHANGED ln
     ELSE LET c == call_constructors(ln, Head(Top.todo))
          IN ln' = c.w /\ GoesOn(c.frames \o <<[Top EXCEPT !.todo = Tail(@)]>>)
InitReturns ==
  /\ Going("init") /\ Quiet /\ UNCHANGED handles
  /\ ln' = [ln EXCEPT !.so[Top.l].done = TRUE] /\ GoesOn(<<>>)
OpenReturns ==
  /\ Going("open") /\ Quiet /\ UNCHANGED ln
  /\ handles' = [handles EXCEPT ![Top.l] = @ + 1] /\ GoesOn(<<>>)

(* soinfo_unload: the destructors of what was constructed, in the order    *)
(* collected, then all of the group is freed, then the other groups go.    *)
call_destructors ==
  /\ Going("unload") /\ Quiet /\ UNCHANGED <<ln, handles>>
  /\ Top.todo # <<>>
  /\ GoesOn((IF ln.so[Head(Top.todo)].called THEN call_functions("fini", Head(Top.todo)) ELSE <<>>)
            \o <<[Top EXCEPT !.todo = Tail(@)]>>)
FiniReturns ==
  /\ Going("fini") /\ Quiet /\ UNCHANGED handles
  /\ ln' = [ln EXCEPT !.so[Top.l].called = FALSE, !.so[Top.l].done = FALSE]
  /\ GoesOn(<<>>)
FreeGroup ==
  /\ Going("unload") /\ Quiet /\ UNCHANGED handles
  /\ Top.todo = <<>> /\ Top.free # <<>>
  /\ ln' = FoldLeft(LAMBDA w, l : soinfo_free(notify_gdb_of_unload(w, l), l), ln, Top.free)
  /\ GoesOn(<<[Top EXCEPT !.free = <<>>]>>)
UnloadExternal ==
  /\ Going("unload") /\ Quiet /\ UNCHANGED handles
  /\ Top.todo = <<>> /\ Top.free = <<>>
  /\ IF Top.ext = <<>> THEN GoesOn(<<>>) /\ UNCHANGED ln
     ELSE LET u == soinfo_unload(ln, Head(Top.ext))
          IN ln' = u.w /\ GoesOn(u.frames \o <<[Top EXCEPT !.ext = Tail(@)]>>)

LinkerNext ==
  \/ __linker_init_post_relocation \/ do_dlopen \/ do_dlclose
  \/ do_android_update_LD_LIBRARY_PATH \/ set_application_target_sdk_version
  \/ Construct \/ InitReturns \/ OpenReturns
  \/ call_destructors \/ FiniReturns \/ FreeGroup \/ UnloadExternal
-------------------------------------------------------------------------------
Groups == {l \in Live(ln) \ {libdl} : ln.so[l].linked /\ Root(ln, l) = l}
In(root, l) == l \in Live(ln) /\ Root(ln, l) = root
Count(seq, T(_)) == Cardinality({i \in 1 .. Len(seq) : T(seq[i])})
Sum(S, f(_)) == FoldSet(LAMBDA x, acc : f(x) + acc, 0, S)
(* The users of a group: handles out or about to be given, links from the  *)
(* libraries of other groups, links an unload has cut and not yet counted. *)
Holders(root) ==
  LET inside(l) == In(root, l)
  IN   Sum({l \in DOMAIN handles : inside(l)}, LAMBDA l : handles[l])
     + Count(stack, LAMBDA f : f.k = "open" /\ inside(f.l))
     + Sum({l \in Live(ln) : ~inside(l)}, LAMBDA l : Count(ln.so[l].kids, inside))
     + Sum({i \in 1 .. Len(stack) : stack[i].k = "unload"}, LAMBDA i : Count(stack[i].ext, inside))

Leaving(l) == \E i \in 1 .. Len(stack) : stack[i].k = "unload" /\ Contains(stack[i].free, l)

(* Whatever was opened, closed, refused half-way or done by init and fini  *)
(* functions, the count of a group that may be unloaded is the number of   *)
(* its users, a library's group is there as long as the library is, and    *)
(* the debugger's list holds exactly the linked libraries, each once.      *)
CountsAreUsers ==
  life = "up" =>
    /\ \A root \in Groups : can_unload(ln, root) => ln.so[root].refc = Holders(root)
    /\ \A l \in Live(ln) : IF ln.so[l].linked THEN Root(ln, l) \in Live(ln) ELSE Leaving(l)
    /\ ToSet(ln.gdb) = {l \in Live(ln) \ {libdl} : ln.so[l].linked} /\ IsInjective(ln.gdb)

(* A reference is bound to a library that is loaded as long as the one     *)
(* that refers to it is (or to a DF_1_GLOBAL library, which is unloaded    *)
(* with the group it came in), and dlsym finds for a library that is not   *)
(* RTLD_GLOBAL every symbol that its group offers.  What it refers to is   *)
(* initialised: init functions run after those of what the library needs,  *)
(* but for those in progress (a cycle, or an open from an init function);  *)
(* when every call has returned all loaded libraries are initialised.      *)
Offers(l, s) == find_symbol_by_name(l, s, "") > 0
Constructing(l) == \E i \in 1 .. Len(stack) : stack[i].k \in {"ctor", "init"} /\ stack[i].l = l
Starts(l) == stack # <<>> /\ Top.k = "init" /\ Top.l = l
BindingsReady ==
  life = "up" =>
    /\ \A l \in Live(ln) \ {libdl} : \A i \in 1 .. Len(ln.so[l].bound) :
         LET to == ln.so[l].bound[i] IN to = None \/ to \in Live(ln) \/ File(to).global
    /\ stack = <<>> => \A l \in Live(ln) \ {libdl} : \A s \in Fs.symbols :
         LET found(next) == dlsym_linear_lookup(ln, s, l, next)
         IN /\ found(FALSE) \in Live(ln) \cup {None} /\ found(TRUE) # l
            /\ "GLOBAL" \notin ln.so[l].rtld /\ (\E p \in ToSet(walk_dependencies_tree(ln, <<Root(ln, l)>>)) : Offers(p, s))
                 => found(FALSE) # None
    /\ \A l \in Live(ln) : ln.so[l].done \/ Starts(l) =>
         \A c \in ToSet(ln.so[l].kids) : ln.so[c].done \/ Constructing(c)
    /\ stack = <<>> => \A l \in Live(ln) : ln.so[l].done
===============================================================================
