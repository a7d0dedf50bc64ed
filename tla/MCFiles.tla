------------------------------- MODULE MCFiles -------------------------------
\* Files with the paths that tell its cases apart, for TLC.
EXTENDS Files

Absolute(names) == [abs |-> TRUE, names |-> names]
Relative(names) == [abs |-> FALSE, names |-> names]
SomePaths == {RootPath, Absolute(<<"home">>), Absolute(<<"mnt">>), Relative(<<"home">>),
              Relative(<<"readme.txt">>)}
=============================================================================
