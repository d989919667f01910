--------------------------- MODULE GdromTransMode ---------------------------
(***************************************************************************)
(* The transfer-mode decoding of gdrom_cmd_set_features                   *)
(* (src/src/hw/gdrom/gdrom_reg.c): which of the five trans_mode_vals a     *)
(* sector count value selects, and the value stored there.                 *)
(***************************************************************************)
EXTENDS Naturals, Bitwise

TransModes == {"PIO_DFLT", "PIO_FLOW_CTRL", "SINGLE_WORD_DMA",
               "MULTI_WORD_DMA", "PSEUDO_DMA"}

\* The mode chain of gdrom_cmd_set_features.  The multi-word DMA test
\* compares against TRANS_MODE_MULTI_WORD_DMA_MASK (0xf8), as the code does.
TransModeOf(sc) ==
    CASE (sc & 254) = 0  -> [mode |-> "PIO_DFLT", val |-> sc]
      [] (sc & 248) = 8  -> [mode |-> "PIO_FLOW_CTRL", val |-> sc - (sc & 248)]
      [] (sc & 248) = 16 -> [mode |-> "SINGLE_WORD_DMA", val |-> sc - (sc & 248)]
      [] (sc & 248) = 248 -> [mode |-> "MULTI_WORD_DMA", val |-> sc - (sc & 248)]
      [] (sc & 248) = 24 -> [mode |-> "PSEUDO_DMA", val |-> sc - (sc & 248)]
      [] OTHER           -> [mode |-> "NONE", val |-> 0]

=============================================================================
