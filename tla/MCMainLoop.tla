---------------------------- MODULE MCMainLoop ----------------------------
(* Small instances of MainLoop for TLC: the defaults with what a user may  *)
(* change in the file or give on the command line, one or two at a time.   *)
EXTENDS MainLoop

DefaultFile ==
  [max |-> 2, httpPort |-> 1, rconPort |-> 2, sync |-> 2, stream |-> 3,
   rcon |-> FALSE, http |-> TRUE, method |-> "interval"]
NoLine == [max |-> NotGiven, httpPort |-> NotGiven, rconPort |-> NotGiven]

Files ==
  {DefaultFile}
  \cup {[DefaultFile EXCEPT !.max = n] : n \in {-1, 0, 1, 3, 66}}
  \cup {[DefaultFile EXCEPT !.rcon = TRUE, !.rconPort = n] : n \in {1, 2, 9}}
  \cup {[DefaultFile EXCEPT !.sync = 11], [DefaultFile EXCEPT !.http = FALSE]}
  \cup {[DefaultFile EXCEPT !.stream = n] : n \in {2, 5, 12}}
  \cup {[DefaultFile EXCEPT !.method = m] : m \in Methods}

Lines ==
  {[NoLine EXCEPT !.max = n] : n \in {-1, 1, 3}}
  \cup {[NoLine EXCEPT !.rconPort = 9], [NoLine EXCEPT !.httpPort = 10]}

SomeInputs ==
  {[file |-> f, line |-> NoLine] : f \in Files} \cup {[file |-> DefaultFile, line |-> l] : l \in Lines}
OneInput == {[file |-> DefaultFile, line |-> NoLine]}
=============================================================================
