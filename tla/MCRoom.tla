------------------------------- MODULE MCRoom -------------------------------
(* Settings of the room server for TLC. *)
EXTENDS Room

CONSTANTS a, b, c

Each(x) == [n \in Nodes |-> x]

\* a seat as a login that came before leaves it
At(id, perm, rank) == [Blank(id, perm) EXCEPT !.activity = rank]

\* two seats, taken by an administrator and a member; nobody does anything
Quiet ==
  [seated |-> <<At(a, "admin", 1), At(b, "readWrite", 2)>>, passwords |-> Each({}), logins |-> Each(0),
   texts |-> Each(0), orders |-> Each({}), console |-> {}, askers |-> {}, retries |-> {},
   attempts |-> {0}, readOnly |-> FALSE, sameSecond |-> FALSE, restarts |-> 0, lossy |-> FALSE, leap |-> 1]

SetPerm(id, perm) == [op |-> "setperm", id |-> id, perm |-> perm]
\* the administrator of the file has not been heard since the last restart
NotHeard(other, perm) == <<At(a, "admin", 0), At(other, perm, 1)>>

\* posts for a node that asks; the same with a login in between
Talk == [Quiet EXCEPT !.texts[a] = 2, !.askers = {b}]
Join == [Quiet EXCEPT !.texts[a] = 1, !.askers = {b}, !.logins[b] = 1, !.passwords[b] = {"member", "blank"}]
\* lost and late messages, and their retries
Late == [Quiet EXCEPT !.texts[a] = 2, !.lossy = TRUE]
Again == [Quiet EXCEPT !.texts[a] = 1, !.lossy = TRUE, !.retries = {a}, !.attempts = {0, 1}]
\* a text in the second of the text before it, or of the login
SameSecond == [Quiet EXCEPT !.texts[a] = 2, !.sameSecond = TRUE]
LoginSecond == [SameSecond EXCEPT !.texts[a] = 1, !.retries = {a}, !.logins[a] = 1, !.passwords[a] = {"admin"}]
Reboot == [Quiet EXCEPT !.logins[a] = 1, !.passwords[a] = {"admin", "blank", "wrong"},
                        !.texts[a] = 1, !.retries = {a}, !.restarts = 1]
\* a post before a restart and one after it, which gets the same timestamp if the
\* clock has gone back, for an administrator whose `since' may be in the file
Reset == [Quiet EXCEPT !.seated = <<At(a, "admin", 1)>>, !.orders[a] = {[op |-> "post"]},
                       !.console = {[op |-> "post"], SetPerm(a, "admin")}, !.restarts = 1]
\* more nodes than seats: a member gives way, as a guest or not; two administrators
Crowd == [Quiet EXCEPT !.seated = NotHeard(b, "readWrite"), !.logins[c] = 1, !.passwords[c] = {"member", "wrong"},
                       !.readOnly = TRUE, !.texts[c] = 1, !.console = {[op |-> "post"]}]
Admins2 == [Quiet EXCEPT !.seated = NotHeard(b, "admin"), !.logins[c] = 1, !.passwords[c] = {"member", "wrong"},
                         !.orders[c] = {[op |-> "post"]}, !.console = {SetPerm(c, "guest")}]
\* an order removes the node whose turn it is
Removal == [Quiet EXCEPT !.orders[a] = {SetPerm(b, "guest")}, !.texts[a] = 1, !.console = {SetPerm(c, "admin")}]
\* a guest's text, and the same once the guest is a member
Promoted == [Quiet EXCEPT !.seated = <<At(a, "admin", 1), At(b, "guest", 2)>>, !.texts[b] = 1, !.retries = {b},
                          !.console = {SetPerm(b, "readWrite")}]

AllRooms == {Talk, Join, Late, Again, SameSecond, LoginSecond, Reboot, Reset, Crowd, Admins2, Removal, Promoted}

\* a member who was out of reach for a while comes back
ComesBack == {[Quiet EXCEPT !.texts[a] = 1, !.lossy = TRUE, !.logins[b] = 1, !.passwords[b] = {"member", "blank"}]}
=============================================================================
