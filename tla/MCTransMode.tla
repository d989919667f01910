---------------------------- MODULE MCTransMode -----------------------------
(***************************************************************************)
(* Checks GdromTransMode!TransModeOf against a reference decoding built    *)
(* from the mask/value pairs gdrom_reg.c defines (TRANS_MODE_*_MASK and    *)
(* TRANS_MODE_*_VAL), tried in the order of gdrom_cmd_set_features, over   *)
(* every byte value of the sector count register.                          *)
(***************************************************************************)
EXTENDS Naturals, Bitwise, GdromTransMode

VARIABLE sc

\* <<mode, TRANS_MODE_*_MASK, TRANS_MODE_*_VAL>> in precedence order.
ModeTable ==
    << <<"PIO_DFLT", 254, 0>>, <<"PIO_FLOW_CTRL", 248, 8>>,
       <<"SINGLE_WORD_DMA", 248, 16>>, <<"MULTI_WORD_DMA", 248, 32>>,
       <<"PSEUDO_DMA", 248, 24>> >>

\* The first mode whose mask and value match; the default PIO mode keeps
\* the whole count, the others the bits outside their mask.
RefTransModeOf(v) ==
    LET hits == {i \in 1..5 : (v & ModeTable[i][2]) = ModeTable[i][3]}
        first == CHOOSE i \in hits : \A j \in hits : i <= j
    IN IF hits = {} THEN [mode |-> "NONE", val |-> 0]
       ELSE [mode |-> ModeTable[first][1],
             val |-> IF first = 1 THEN v ELSE v - (v & ModeTable[first][2])]

Init == sc \in 0..255
Next == UNCHANGED sc

\* SET_FEATURES selects the transfer mode whose TRANS_MODE_*_VAL the sector
\* count matches under its mask, as the #defines of gdrom_reg.c state.
TransModeMatchesDefines == TransModeOf(sc) = RefTransModeOf(sc)
=============================================================================
