----------------------------- MODULE MCCommands ----------------------------
EXTENDS Commands

At(id, subs) == [id |-> <<id>>, subs |-> subs]

\* What is appended to the second path just fits the scratch buffer; the
\* third does not fit it as it is.
MCPaths == {At(7, <<>>), At(8, <<<<2>>, <<1>>>>), At(8, <<<<2>>, <<1>>, <<3>>, <<4>>>>)}
MCSubs == {<<3, 4>>}
MCBlobPaths == {At(7, <<>>), At(7, <<<<1>>>>)}
MCLists == {<<5, 6>>}
=============================================================================
