---------------------------- MODULE MCDeployment ----------------------------
(* Small instance of Deployment for TLC: two profiles and up to three nodes with every    *)
(* combination of profile lists, the ways profile files can be wrong, and every kind of   *)
(* schedule, looked at around the minutes at which windows open and close.                *)
EXTENDS Deployment

MCSpec(cron, image, on, flags, rules, gateways) ==
  [schedule |-> cron, mev |-> [on |-> on, image |-> image], flags |-> flags,
   rules |-> rules, gateways |-> gateways]
Rule(key, by) == [key |-> key, by |-> by]
File(name, sub, spec) == [name |-> name, sub |-> sub, unreadable |-> FALSE, spec |-> spec]
MCNode(own, disabled, spec) == [own |-> own, disabled |-> disabled, spec |-> spec]
Job(entry, files, shared, spare, mcNodes) ==
  [entry |-> entry, files |-> files, shared |-> shared, spare |-> spare, nodes |-> mcNodes]

Sunday == <<0, 2, Star, Star, 0>>
A == MCSpec(Sunday, "a", TRUE, [x |-> "a", y |-> "a"], <<Rule(1, "a"), Rule(2, "a")>>, <<"a">>)
B == MCSpec(NoString, NoString, FALSE, [y |-> "b"], <<Rule(2, "b"), Rule(3, "b"), Rule(3, "b2")>>, <<"b">>)
N1 == MCSpec(NoString, "n", FALSE, [x |-> "n", z |-> "n"], <<Rule(1, "n"), Rule(3, "n")>>, <<"n">>)
N2 == MCSpec(<<30, 2, Star, Star, Star>>, "m", TRUE, <<>>, <<>>, <<"m">>)

FileA == File("A", FALSE, A)
FileB == File("B", FALSE, B)
Good == <<FileA, FileB>>
Lists == {<<>>, <<"A">>, <<"B">>, <<"B", "A">>}

ClusterJobs ==
  {Job("cluster", Good, shared, spare, <<MCNode(o1, FALSE, N1), MCNode(<<"A">>, off, N1), MCNode(o2, FALSE, N2)>>) :
     shared \in Lists, spare \in 0 .. 2, o1 \in Lists, o2 \in Lists, off \in BOOLEAN}
DirectoryJobs ==
  {Job("directory", Good, <<>>, 0, <<MCNode(o1, FALSE, N1), MCNode(o2, FALSE, N2)>>) :
     o1 \in Lists, o2 \in Lists}
ProfileJobs ==
  {Job("profile", Good, <<>>, 0, <<MCNode(own, FALSE, n)>>) : own \in Lists, n \in {N1, N2}}
WrongFiles ==
  { <<>>, <<FileA>>, <<FileA, [FileB EXCEPT !.sub = TRUE]>>, <<FileA, File("A", FALSE, B), FileB>>,
    <<FileA, [FileB EXCEPT !.unreadable = TRUE]>>, <<FileA, File(NoString, TRUE, B)>> }
WrongJobs ==
  {Job(entry, files, <<>>, 0, <<MCNode(<<"A">>, FALSE, N1), MCNode(<<"B">>, FALSE, N2)>>) :
     entry \in {"cluster", "directory"}, files \in WrongFiles}
    \cup {Job("profile", files, <<>>, 0, <<MCNode(<<"A", "B">>, FALSE, N1)>>) : files \in WrongFiles}
Schedules ==
  {<<m, h, Star, Star, d>> : m \in {Star, 0, 1, 59}, h \in {Star, 2, 23}, d \in {Star, 0, 6, 7}}
    \cup {<<60, 2, Star, Star, 0>>, <<0, 24, Star, Star, 0>>, <<0, 2, Star, Star, 8>>,
          <<NotANumber, 2, Star, Star, 0>>, <<0, 2, Star, Star>>,
          <<0, 2, 15, Star, Star>>, <<0, 2, 3, Star, 0>>, <<0, 2, Star, 6, 0>>}
ScheduleJobs ==
  {Job("cluster", Good, <<"A">>, 0, <<MCNode(<<>>, FALSE, [N2 EXCEPT !.schedule = s])>>) : s \in Schedules}

MCJobs == ClusterJobs \cup DirectoryJobs \cup ProfileJobs \cup WrongJobs \cup ScheduleJobs
MCInstants ==
  {0, 1, 58, 59, 60, 119, 120, 121, 178, 179, 180, 1379, 1380, 1381, 1438, 1439, 1440, 8640, 8760,
   8819, 8820, 10019, 10020, 10078, 10079}
=============================================================================
