---------------------------- MODULE MCJobReports ----------------------------
(* Small instances of JobReports.                                          *)
EXTENDS JobReports

\* What follows the command's own -- is the command's; a --job that swallows
\* the -- leaves none.
Named == <<"--job", "backup", "--", "sh", "--job">>
Quiet == <<"--no-output", "--job", "backup", "--job", "nightly", "--", "sh">>
Nameless == <<"--", "sh">>
Swallowed == <<"--job", "--", "sh">>
Service == <<>>
MCLines == <<{Named, Nameless}, {Quiet, Swallowed, Service}>>

\* More than fits, with a secret and a key among the lines that are kept, and a
\* key among those that are not.
Chatty == [out |-> <<"begin", "rest", "end", "plain", "secret", "plain">>,
           err |-> <<"key", "begin", "rest">>]
MCOutputs == {Chatty}

MCCodes == {0, 143}
MCFaults == {"write", "rename"}
=============================================================================
