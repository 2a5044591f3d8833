---------------------------- MODULE MCSerialPorts ----------------------------
EXTENDS SerialPorts

CONSTANTS nl, cr, sp, a, i1

MCBytes          == {nl, cr, sp, a}
MCMessages       == {<<a>>, <<nl>>, <<a, nl>>}
MCScreenMessages == {<<a>>, <<sp, a>>, <<a, sp>>, <<a, sp, nl>>, <<nl>>, <<a, cr>>}
MCRingMessages   == {<<a>>, <<nl, a>>}
MCOneByte        == {1}
MCTwoBytes       == {1, 2}
=============================================================================
