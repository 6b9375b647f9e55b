-------------------------- MODULE MCChimpModuleMgr --------------------------
(* Instances of ChimpModuleMgr for TLC: files that use nothing, each other *)
(* in a chain, a builtin, each other in a circle, and what does not exist; *)
(* a file compiled under the name of a builtin it uses; unreadable and     *)
(* malformed ones.                                                         *)
EXTENDS ChimpModuleMgr

MCUses ==
  [f \in Files |->
     CASE f = "main" -> <<"b">>
       [] f = "a" -> <<"b", "io">>
       [] f = "wrap" -> <<"io">>
       [] f = "round" -> <<"c">>
       [] f = "c" -> <<"b", "d">>
       [] f = "d" -> <<"c">>
       [] f = "spoilt" -> <<"e">>
       [] f = "lost" -> <<"nowhere">>
       [] f = "rotten" -> <<"f">>
       [] OTHER -> <<>>]
MCRequests == { <<"a", "a">>, <<"io", "wrap">> }

=============================================================================
