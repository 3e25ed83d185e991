------------------------------- MODULE MCB2nd --------------------------------
EXTENDS B2nd
C(s, c, b, item, calls) == [calls |-> calls, shape |-> s, chunkshape |-> c, blockshape |-> b, item |-> item]
MCContexts == {C(<<5>>, <<2>>, <<1>>, 0, 2), C(<<3, 4>>, <<2, 2>>, <<1, 2>>, 7, 1)}
MCPartitions == {<< <<2>>, <<1>> >>, << <<3>>, <<2>> >>, << <<2, 2>>, <<1, 2>> >>, << <<3, 2>>, <<2, 2>> >>}
MCDeltas == {-2, 0, 1}
=============================================================================
