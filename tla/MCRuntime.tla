------------------------------- MODULE MCRuntime -------------------------------
(***************************************************************************)
(* The two parts of the Android runtime that the patches change most: the  *)
(* parcels of a process and its dynamic linker.  They share no state, so a *)
(* behaviour is one of either.                                             *)
(***************************************************************************)
EXTENDS Parcels, Linker

VARIABLE part  \* whose behaviour it is

runtimeVars == <<vars, linkerVars, part>>

RuntimeInit ==
  /\ Init /\ LinkerInit
  /\ \/ part = "parcels" /\ fs = CHOOSE f \in DOMAIN Systems : TRUE
     \/ part = "linker" /\ ~legacy

RuntimeNext ==
  /\ UNCHANGED part
  /\ \/ part = "parcels" /\ Next /\ UNCHANGED linkerVars
     \/ part = "linker" /\ LinkerNext /\ UNCHANGED vars

RuntimeSpec == RuntimeInit /\ [][RuntimeNext]_runtimeVars
-------------------------------------------------------------------------------
(* Two file systems.                                                       *)
MCLengths == {-1, 1}

Def(s, v) == [s |-> s, v |-> v, hidden |-> FALSE]
Ref(s, v) == [s |-> s, v |-> v, weak |-> FALSE, type |-> "JUMP_SLOT"]
Weak(s) == [s |-> s, v |-> "", weak |-> TRUE, type |-> "GLOB_DAT"]
Lib(name, needs, defs, refs) ==
  [soname |-> name, base |-> name, needs |-> needs, global |-> FALSE, nodelete |-> FALSE,
   symbolic |-> FALSE, bad |-> "", gnu |-> TRUE, versioned |-> FALSE, verneed |-> {},
   defs |-> defs, refs |-> refs]
Program(needs) == [Lib(None, needs, <<>>, <<>>) EXCEPT !.bad = ""]
Asks(name) == [name |-> name, flags |-> {}, fd |-> None]
Dl == Lib("dl", <<>>, <<Def("dlopen", "")>>, <<>>)

(* b and c need each other and both need d; a needs b and c.               *)
Diamond ==
  [files |-> ("/main" :> Program(<<"dl", "d">>)) @@ ("/dl" :> Dl)
     @@ ("/a" :> Lib("a", <<"b", "c">>, <<Def("x", "")>>, <<Ref("y", ""), Ref("z", "")>>))
     @@ ("/b" :> Lib("b", <<"c", "e">>, <<Def("y", "")>>, <<Ref("z", ""), Weak("w")>>))
     @@ ("/c" :> Lib("c", <<"b">>, <<Def("z", "")>>, <<Weak("x")>>))
     @@ ("/d" :> Lib("d", <<>>, <<Def("w", "")>>, <<>>))
     @@ ("/e" :> [Lib("e", <<>>, <<Def("w", "")>>, <<Weak("u")>>) EXCEPT !.gnu = FALSE]),
   dirs |-> [p \in {"/system/lib"} \X {"a", "b", "c", "d", "e"} |-> "/" \o p[2]],
   preloads |-> {<<>>, <<"e">>}, opens |-> {Asks("a"), Asks("c"), Asks("e")},
   symbols |-> {"w", "x", "y", "z"}]

(* Two libraries of one soname, one of them the application's; versions;   *)
(* a library for the global group, a symbolic one, one that cannot be      *)
(* bound and one that cannot be loaded.                                    *)
Mixed ==
  [files |-> ("/main" :> Program(<<"dl">>)) @@ ("/dl" :> Dl)
     @@ ("/a" :> [Lib("a", <<"b", "/d">>, <<Def("x", "1")>>, <<Ref("y", "1"), Ref("w", "")>>)
                    EXCEPT !.versioned = TRUE, !.verneed = {[soname |-> "b", v |-> "1"]}])
     @@ ("/b" :> [Lib("b", <<>>, <<[s |-> "y", v |-> "0", hidden |-> TRUE], Def("y", "1")>>, <<>>)
                    EXCEPT !.versioned = TRUE])
     @@ ("/app/b" :> Lib("b", <<"d">>, <<Def("y", ""), Def("w", "")>>, <<Ref("w", "")>>))
     @@ ("/c" :> [Lib("c", <<"b", "d">>, <<Def("z", "")>>, <<Ref("w", ""), Ref("v", "")>>)
                    EXCEPT !.symbolic = TRUE])
     @@ ("/d" :> [Lib("d", <<>>, <<Def("w", "")>>, <<>>) EXCEPT !.global = TRUE])
     @@ ("/e" :> [Lib(None, <<"a", "missing">>, <<>>, <<>>) EXCEPT !.nodelete = FALSE, !.base = "e"]),
   dirs |-> [p \in {"/system/lib"} \X {"a", "b", "c", "d", "e"} |-> "/" \o p[2]]
            @@ (<<"/app", "b">> :> "/app/b"),
   preloads |-> {<<>>},
   opens |-> {Asks(""), Asks("a"), Asks("c"), Asks("/d"), [Asks("e") EXCEPT !.flags = {"GLOBAL"}],
              [Asks("b") EXCEPT !.flags = {"NOLOAD"}],
              [Asks("b") EXCEPT !.fd = "/app/b", !.flags = {"GLOBAL"}]},
   symbols |-> {"w", "x", "y", "z"}]

MCSystems == [diamond |-> Diamond, mixed |-> Mixed]
===============================================================================
