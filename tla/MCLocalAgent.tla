---------------------------- MODULE MCLocalAgent ----------------------------
EXTENDS LocalAgent
(* The window of Allegro and a terminal.                                   *)
MCResolutions ==
  {[io |-> "Allegro", width |-> 1500, height |-> 900, linesize |-> 20],
   [io |-> "Ncurses", width |-> 120, height |-> 40, linesize |-> 1]}
(* Every way to name players and zones, with the commands that use them.   *)
MCLines ==
  LET named(cmds, args) == [cmd : cmds, who : {"", "you", "opponent", "none", "?"},
                            zone : {"", "hand", "graveyard", "?"}, arg : args]
      plain(cmds) == [cmd : cmds, who : {""}, zone : {""}, arg : {<<>>}]
  IN  named({"sel"}, {<<>>, <<2>>, <<1, 2>>}) \cup named({"cd"}, {<<>>})
        \cup plain({"pass", "exit", "ls", "view", "help", "profile", "?"})
MCPowers == {0, 3}
=============================================================================
