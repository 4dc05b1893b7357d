---- MODULE MCDiskTier ----
EXTENDS DiskTier

\* A conversation, the same one grown by a token, one that parts from it after
\* its first token, and one that shares nothing.
MCTalk == <<1, 1>>
MCGrown == <<1, 1, 1>>
MCFork == <<1, 2>>
MCOther == <<2>>
MCConversations == {MCTalk, MCGrown, MCFork, MCOther}
MCPrompts == {MCGrown}
MCTwoTalks == {MCTalk, MCGrown, MCOther}

\* A snapshot at the end of the prompt; the longest also took one where it
\* parted from the fork, the others did not.
MCSnapshots == [h \in {MCTalk, MCGrown, MCFork, MCOther, Root} |->
    IF h = Root THEN {} ELSE IF h = MCGrown THEN {{1, Len(h)}} ELSE {{Len(h)}}]

\* The other conversation is not worth storing.
MCFewerSnapshots == [MCSnapshots EXCEPT ![MCOther] = {}]

\* The base of a split and the file behind it go bad or cannot be read, either
\* of its halves cannot be written, and the longest image is turned down.
MCBase == <<1>>
MCFaults == {<<"rot", MCBase>>, <<"rot", MCFork>>, <<"header", MCBase>>,
             <<"write", MCBase>>, <<"write", MCGrown>>, <<"refused", MCGrown>>}
NoFaults == {}

\* Once something has gone wrong, the model is followed while there are so few
\* files.
MCFilesAfterFault == 2
FewFilesAfterFault == faults = {} \/ Cardinality(DOMAIN disk) <= MCFilesAfterFault
====
