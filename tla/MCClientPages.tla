---------------------------- MODULE MCClientPages -----------------------------
EXTENDS ClientPages, TLC

CONSTANTS save1, save2, lesson1, lesson2, block1, block2, host1, host2,
          question1, question2, chain1

MCMultiple == {1}
MCSaves == {save1, save2}
MCLessons == {lesson1, lesson2}
MCBlocks == {block1, block2}
MCHosts == {host1, host2}
MCLibrary == {question1, question2}
MCChains == {chain1}
Symmetry == Permutations(MCSaves)
===============================================================================
