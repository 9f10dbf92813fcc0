------------------------------ MODULE PoolSwap ------------------------------
(***************************************************************************)
(* Swapping the active voucher for another one of the pool, in four nodes: *)
(* the list of vouchers, the limit with the amount, the quote with the     *)
(* PIN, and the result.  pool, list, limit and quote are the answers of    *)
(* CheckTokenInPool, GetPoolSwappableVouchers, GetSwapFromTokenMaxLimit    *)
(* and GetPoolSwapQuote.                                                   *)
(***************************************************************************)
EXTENDS Wallet

\* LoadSwapToList: the failure of a service is a failure of the handler, and an
\* empty answer leaves the list of an earlier visit in place.
EnterSwapToList(s, pool, list) ==
  IF s.noActive THEN At(s, "no_voucher")
  ELSE IF pool = Down THEN Failed(s)
  ELSE IF pool = "out" THEN At(s, "missing_voucher")
  ELSE IF list = Down THEN Failed(s)
  ELSE IF list = {} THEN At(s, "swap_to_list")
  ELSE [At(s, "swap_to_list") EXCEPT
          !.poolTo = IF s.raw THEN list \ {s.active} ELSE list]

OpenPoolSwap(pool, list) == On("main") /\ Step(EnterSwapToList(Fresh, pool, list))

\* A choice that is not on the list, or the way back from a limit that is too
\* low: the list is loaded again.
ReloadSwapToList(pool, list) ==
  /\ row.node \in {"swap_to_list", "low_swap_amount"}
  /\ Step(EnterSwapToList(Fresh, pool, list))

LeaveSwapToList(h) == On("swap_to_list") /\ Step(EnterMain(Fresh, h))

\* No list was ever stored.
SwapMaxLimitWithoutList ==
  On("swap_to_list") /\ row.poolTo = None /\ Step(Failed(Fresh))

\* SwapMaxLimit.  The voucher chosen is stored before the limit is known.
SwapMaxLimit(v, limit) ==
  LET s == [Fresh EXCEPT !.swapTo = v]
  IN  /\ On("swap_to_list") /\ row.poolTo # None /\ v \in row.poolTo
      /\ \/ limit = Down /\ Step(At(s, "api_failure"))
         \/ limit # Down /\ limit < MinAmount /\ Step(At(s, "low_swap_amount"))
         \/ /\ limit # Down /\ limit >= MinAmount
            /\ Step([At(s, "swap_limit") EXCEPT
                       !.swapMax = Truncate(limit),
                       !.offered = [from |-> row.active, v |-> v, n |-> Truncate(limit),
                                    to |-> None]])

\* The list is shown again as it is: LoadSwapToList returns early on "0".
LeaveSwapLimit == On("swap_limit") /\ Step(At(Fresh, "swap_to_list"))

\* A faulty variant, only there to see a property fail.
SwapPreviewUncut(x, quote) ==
  LET s == [Fresh EXCEPT !.shown = [from |-> row.active, v |-> row.swapTo, n |-> x,
                                    to |-> None]]
      accepted == [s EXCEPT !.swapAmount = Scale(x.value, row.active), !.temp = x]
  IN  /\ On("swap_limit")
      /\ \/ x.value > row.swapMax /\ Step([At(s, "swap_preview") EXCEPT !.invalid = TRUE])
         \/ x.value <= row.swapMax /\ Cut(x) = None /\ Step(Failed(Fresh))
         \/ /\ x.value <= row.swapMax /\ Cut(x) # None
            /\ Step(At(accepted, IF quote = Down THEN "api_failure" ELSE "swap_preview"))

\* SwapPreview.  An amount above the limit sets flag_invalid_amount, which
\* swap_preview.vis does not look at: the PIN prompt follows all the same.  What is
\* no number once it is cut cannot be scaled, an error of the handler.
SwapPreview(x, quote) ==
  LET s == [Fresh EXCEPT !.shown = [from |-> row.active, v |-> row.swapTo, n |-> x,
                                    to |-> None]]
      accepted == [s EXCEPT !.swapAmount = Scale(Cut(x), row.active), !.temp = x]
  IN  /\ On("swap_limit")
      /\ \/ x.value > row.swapMax /\ Step([At(s, "swap_preview") EXCEPT !.invalid = TRUE])
         \/ x.value <= row.swapMax /\ Cut(x) = None /\ Step(Failed(Fresh))
         \/ /\ x.value <= row.swapMax /\ Cut(x) # None
            /\ Step(At(accepted, IF quote = Down THEN "api_failure" ELSE "swap_preview"))

LeaveSwapPreview == On("swap_preview") /\ Step([At(Fresh, "swap_limit") EXCEPT !.shown = None])

\* InitiateSwap, with the right PIN; ok: the service accepts.
InitiateSwap(ok) ==
  LET s == At(Fresh, "swap_initiated")
      call == [op |-> "swap", from |-> row.active, v |-> row.swapTo,
               n |-> row.swapAmount, to |-> None]
  IN  /\ On("swap_preview")
      /\ \/ row.swapAmount = None /\ Step(Failed(Fresh))
         \/ row.swapAmount # None /\ Step([s EXCEPT !.calls = IF ok THEN <<call>> ELSE <<>>])
=============================================================================
