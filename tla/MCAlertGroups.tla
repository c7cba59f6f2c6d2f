--------------------------- MODULE MCAlertGroups ---------------------------
(* Small instances of AlertGroups for TLC.  The rule of every group names  *)
(* two destinations: a channel and a user, whose direct messages Slack     *)
(* puts into a channel of another ID; and a blank between two commas.      *)
EXTENDS AlertGroups, TLC

CONSTANTS Team, User, DM

MCChannel == {Team, User, DM}
MCApiOf == [c \in MCChannel |-> IF c = User THEN DM ELSE c]
OneChannel == [g \in Groups |-> <<User>>]
TwoChannels == [g \in Groups |-> <<Team, Blank, User, Team>>]
Symmetry == Permutations(Alerts) \cup Permutations(Workers)
=============================================================================
