------------------------------ MODULE MCAppsDev ------------------------------
(***************************************************************************)
(* One tab: either two builds with a reload by the user, or the app and    *)
(* its user at work across one build.                                      *)
(***************************************************************************)
EXTENDS AppsDev

Api(method, path) == [kind |-> "api", method |-> method, path |-> path]
File(file) == [kind |-> "download", file |-> file]

MCRequests ==
  {Api("allowed", "plain"), Api("allowed", "denied"), File("plain"),
   File("refused"), File("uncloneable")}

Quiet == [d \in Deeds |-> 0]
Plain == [mode |-> "light", route |-> "/", built |-> 1, budget |-> Quiet]

MCStarts ==
  {[Plain EXCEPT !.built = b, !.budget["build"] = 2, !.budget["reload"] = 1] : b \in 0 .. 1}
  \cup {[Plain EXCEPT !.budget["build"] = 1, !.budget["accident"] = 1, !.budget["interrupt"] = 1],
        [Plain EXCEPT !.budget["build"] = 1, !.budget["call"] = 1],
        [Plain EXCEPT !.budget["call"] = 1, !.budget["interrupt"] = 1],
        [Plain EXCEPT !.budget["call"] = 2]}
  \cup {[Plain EXCEPT !.route = r, !.budget["mode"] = 1, !.budget["route"] = 1, !.budget["reload"] = 1] : r \in {"/runs", "long"}}
  \cup {[Plain EXCEPT !.budget["route"] = 2, !.budget["history"] = 1]}
=============================================================================
