------------------------------- MODULE MCShell -------------------------------
(***************************************************************************)
(* An instance of Shell for TLC: names that begin with a mount point's and *)
(* lines with every placing of the blanks.                                 *)
(***************************************************************************)
EXTENDS Shell

MCRom == [q \in {<<>>, <<"bin">>, <<"config">>, <<"bin", "ls">>, <<"bin", "cd">>,
                 <<"bin", "cat">>, <<"bin", "tool">>, <<"bin", "simple_game">>, <<"config", "dev">>} |->
            IF Len(q) < 2 THEN "dir" ELSE IF q[1] = "bin" THEN "program" ELSE "data"]

MCApps == {"msos_shell.bin"}
MCDrivers == {"usart", "lcd"}
MCExtends == {<<"binary", "bin">>, <<"romance", "rom">>}

MCPathOf == [w \in {"/", "/bin", "/bin/msos_shell.bin", "/dev", "/rom/config", "/nothing"} |->
    CASE w = "/" -> <<>>
      [] w = "/bin" -> <<"bin">>
      [] w = "/bin/msos_shell.bin" -> <<"bin", "msos_shell.bin">>
      [] w = "/dev" -> <<"dev">>
      [] w = "/rom/config" -> <<"rom", "config">>
      [] w = "/nothing" -> <<"nothing">>]

MCExitWords == {"exit"}

MCCreatable == {<<"binary">>, <<"config", "ls">>, <<"rom", "note">>}

MCWords == {"ls", "cd", "cat", "tool", "simple_game", "config", "usart", "msos_shell.bin", "exit",
             "..", "-l"}
             \union DOMAIN MCPathOf

(* One word, a word and an argument with blanks anywhere, and some longer.  *)
MCLines ==
    LET S == Space
        one == {<<w>> : w \in MCWords \ {"..", "-l"}} \union {<<S, w, S>> : w \in {"ls", "/bin"}}
        cds == {<<"cd", S, w>> : w \in {"config", "..", "/bin", "/dev", "/rom/config"}}
        more == {<<"cd", S, S, "config", S>>, <<"cat", S, "config">>, <<"cat", S, "usart">>, <<"cat", S, "shell.cfg">>,
                 <<"ls", S, "-l", S>>, <<S, "ls", S, "-l", S, S, "config">>,
                 <<"ls", S, "config", S, "..", S, "-l">>, <<"tool", S, "exit">>,
                 <<"/bin/msos_shell.bin", S, "-l">>}
    IN  {<<S>>} \union one \union cds \union more
=============================================================================
