---------------------------- MODULE MCAlgorithms ----------------------------
EXTENDS Algorithms

CONSTANTS c1, c2, c3, c4, c5, m1, m2, m3, ann, anne, annlee, lee, may, mail1, mail2, box

MCMeetingOf ==
    [c \in Chunk |-> IF c \in {c1, c2, c3} THEN m1 ELSE IF c = c4 THEN m2 ELSE m3]

\* One speaker, another, one with a tag on the second line only, no words.
MCText == {[tags |-> <<"A">>, words |-> 1],
           [tags |-> <<"B">>, words |-> 3],
           [tags |-> <<"untagged", "B">>, words |-> 2],
           [tags |-> <<"A">>, words |-> 0]}

MCGaps == {-1, 1, 4}

\* Names a letter or a space apart; two letters also tell mail1 from mail2,
\* addresses of one mailbox in two domains.
MCNear ==
    LET near == {<<<<ann, lee>>, <<anne, lee>>>>, <<<<ann, lee>>, <<annlee>>>>,
                 <<<<anne, lee>>, <<annlee>>>>, <<<<mail1>>, <<mail2>>>>}
    IN  near \union {<<pair[2], pair[1]>> : pair \in near}

MCFullName ==
    {<<>>, <<lee>>, <<annlee>>, <<ann, lee>>, <<anne, lee>>, <<anne, may>>, <<mail1>>}

MCLocal == [m \in Mail |-> box]

=============================================================================
