------------------------ MODULE MCConversationSlots ------------------------
(***************************************************************************)
(* Instances of ConversationSlots for TLC.  The prompts are two            *)
(* conversations behind one system block and a later turn of the first; a  *)
(* token is a small number.                                                *)
(***************************************************************************)
EXTENDS ConversationSlots

Asked(prompt, anchor) == [prompt |-> prompt, boundary |-> Len(prompt) - 1, anchor |-> anchor]

System == <<1, 1>>
First == Asked(System \o <<2, 2>>, 2)
FirstAgain == Asked(System \o <<2, 2, 4, 2>>, 2)
Second == Asked(System \o <<3, 3>>, 2)

MCTurns == {FirstAgain, Second}
MCTalk == {First, FirstAgain, Second}
MCReplies == {<<>>, <<4>>, <<4, 2>>}
MCOneReply == {<<4, 4>>}
=============================================================================
