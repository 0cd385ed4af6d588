----------------------------- MODULE MCBackups -----------------------------
\* Lists of repositories.  The hash of the external ones tells most of them apart, but
\* not Both from the list without its volume.
EXTENDS Backups, TLC

CONSTANTS b1, b2

NoneRepo == [kind |-> "none", bucket |-> None, schedule |-> FALSE]
Volume(s) == [kind |-> "volume", bucket |-> None, schedule |-> s]
Cloud(b, s) == [kind |-> "cloud", bucket |-> b, schedule |-> s]

Both     == [repos |-> <<Cloud(b2, FALSE), Volume(FALSE)>>, first |-> 2]
NoVolume == [repos |-> <<Cloud(b2, TRUE), NoneRepo>>, first |-> 1]
Lists    == {Both, NoVolume, [repos |-> <<Cloud(b1, FALSE), NoneRepo>>, first |-> 1],
                             [repos |-> <<NoneRepo, Cloud(b1, TRUE)>>, first |-> 2]}
Initial  == {NoVolume}

=============================================================================
