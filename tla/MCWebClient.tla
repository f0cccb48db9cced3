---------------------------- MODULE MCWebClient ----------------------------
(* One student and the staff; any key that one of their pages shows, but   *)
(* for three that are shown and refreshed just as another one is: the feed *)
(* of the commandant as the student's, all violations as those of one      *)
(* student, the users as the rooms.                                        *)
EXTENDS WebClient

CONSTANTS s1, r1

KeysOf(u) ==
  Shell(u).shows \cup
    UNION {Page(path, u, row).shows : path \in Routes(RoleOf(u)), row \in {NoRow, r1}}

EveryKey == {<<"session">>} \cup UNION {KeysOf(u) : u \in Users}

Followed ==
  EveryKey \ {<<"notifications", "Commandant">>, <<"violations">>, <<"users">>}
=============================================================================
