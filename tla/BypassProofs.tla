---------------------------- MODULE BypassProofs -----------------------------
(***************************************************************************)
(* Proofs about Bypass, for any number of windows and monitors: its types   *)
(* and four invariants of the fullscreen bypass.  The lemmas about          *)
(* check_unredirect() say what it leaves behind whatever the mask was; each *)
(* handler then only has to show what it changed around its calls.          *)
(***************************************************************************)
EXTENDS Bypass, TLAPS

\* Monitors with a fullscreen window on the tag they show, minimised or not.
Covered(w) == {m \in Monitor : \E c \in w.managed \cap w.isfullscreen : w.vis[c] = m}

\* What the compositor's state promises by itself.
Sound(s) ==
    /\ s \in Compositor
    /\ s.paused_mask # {} => s.watchdog
    /\ ~s.paused => s.hole = s.paused_mask

\* What it promises about the windows w.
Fits(w, s) ==
    /\ s.direct \subseteq w.managed
    /\ \A c \in w.managed \ (w.isfullscreen \cup w.hint) : c \notin s.direct

\* A window shown is managed, and shown by its own monitor.
Placed(w) ==
    /\ w.isfullscreen \cup w.translucent \cup w.hint \cup w.hidden \subseteq w.managed
    /\ w.fills \subseteq w.isfullscreen
    /\ \A c \in Client : w.vis[c] # Nowhere => c \in w.managed /\ w.vis[c] = w.mon[c]

IInv ==
    /\ wm \in Windows /\ Placed(wm)
    /\ Sound(comp) /\ Fits(wm, comp)
    /\ comp.paused_mask \subseteq Covered(wm)

-----------------------------------------------------------------------------
\* The lemmas about single functions.

\* The mask that should be is a set of monitors that show fullscreen windows.
LEMMA JustifiedCovered ==
    ASSUME NEW w \in Windows
    PROVE  Justified(w) \subseteq Covered(w) /\ Justified(w) \subseteq Monitor
  BY DEF Justified, Covered

\* Raising the overlay keeps what the compositor promises, and its mask.
LEMMA RestackKeeps ==
    ASSUME NEW w, NEW m, NEW s, Sound(s)
    PROVE  /\ Sound(restack(w, s, m)) /\ Sound(raise_overlay(s))
           /\ restack(w, s, m).paused_mask = s.paused_mask
           /\ restack(w, s, m).direct = s.direct
           /\ raise_overlay(s).paused_mask = s.paused_mask
           /\ raise_overlay(s).direct = s.direct
  BY DEF Sound, Compositor, restack, raise_overlay

\* With a new mask, Restructure() makes the overlay and the watchdog fit.
LEMMA RestructureSound ==
    ASSUME NEW s \in Compositor, s.paused = (s.paused_mask = Monitor)
    PROVE  /\ Sound(Restructure(s))
           /\ Restructure(s).paused_mask = s.paused_mask
           /\ Restructure(s).direct = s.direct
  <1>1. Monitor # {}
    BY NumMonitorsAssumption DEF Monitor
  <1>2. CASE s.paused_mask = {}
    BY <1>1, <1>2 DEF Sound, Compositor, Restructure, update_overlay_shape
  <1>3. CASE s.paused_mask # {} /\ s.paused
    BY <1>3 DEF Sound, Compositor, Restructure, update_overlay_shape
  <1>4. CASE s.paused_mask # {} /\ ~s.paused
    BY <1>4 DEF Sound, Compositor, Restructure, update_overlay_shape
  <1> QED BY <1>2, <1>3, <1>4

\* When the mask changes, compositor_check_unredirect() makes it the justified
\* one, whether or not the watchdog was running, and takes only fullscreen
\* windows out of compositing.
LEMMA CheckChanges ==
    ASSUME NEW w \in Windows, NEW s \in Compositor, Fits(w, s), Justified(w) # s.paused_mask
    PROVE  /\ Sound(check_unredirect(w, s))
           /\ Fits(w, check_unredirect(w, s))
           /\ check_unredirect(w, s).paused_mask = Justified(w)
  <1> DEFINE mask == Justified(w)
             added == mask \ s.paused_mask
             removed == s.paused_mask \ mask
             t == [s EXCEPT !.paused_mask = mask, !.paused = mask = Monitor,
                            !.pending = IF added # {} THEN NoClient ELSE @,
                            !.direct = Redirect(w, s, added, removed)]
  <1>1. check_unredirect(w, s) = Restructure(t)
    BY DEF check_unredirect
  <1>2. /\ Redirect(w, s, added, removed) \subseteq w.managed
        /\ \A c \in w.managed \ (w.isfullscreen \cup w.hint) :
             c \notin Redirect(w, s, added, removed)
    BY DEF Redirect, Fits
  <1>3. w.managed \subseteq Client
    BY DEF Windows
  <1>4. t \in Compositor
    BY <1>2, <1>3, JustifiedCovered DEF Compositor
  <1>5. /\ t.paused_mask = mask
        /\ t.paused = (t.paused_mask = Monitor)
        /\ t.direct = Redirect(w, s, added, removed)
    BY DEF Compositor
  <1>6. /\ Sound(Restructure(t)) /\ Restructure(t).paused_mask = mask
        /\ Restructure(t).direct = Redirect(w, s, added, removed)
    <2> HIDE DEF t
    <2> QED BY <1>4, <1>5, RestructureSound
  <1> QED BY <1>1, <1>2, <1>6 DEF Fits

\* In any case the mask is the justified one afterwards.
LEMMA CheckSound ==
    ASSUME NEW w \in Windows, NEW s, Sound(s), Fits(w, s)
    PROVE  /\ Sound(check_unredirect(w, s))
           /\ Fits(w, check_unredirect(w, s))
           /\ check_unredirect(w, s).paused_mask \subseteq Covered(w)
  <1>1. Justified(w) \subseteq Covered(w)
    BY JustifiedCovered
  <1>2. CASE Justified(w) = s.paused_mask
    BY <1>1, <1>2 DEF check_unredirect
  <1>3. CASE Justified(w) # s.paused_mask
    BY <1>1, <1>3, CheckChanges DEF Sound
  <1> QED BY <1>2, <1>3

\* The set of directly drawn windows says nothing about the overlay.
LEMMA DirectKeeps ==
    ASSUME NEW s, Sound(s), NEW D \in SUBSET Client
    PROVE  /\ Sound([s EXCEPT !.direct = D])
           /\ [s EXCEPT !.direct = D].paused_mask = s.paused_mask
           /\ [s EXCEPT !.direct = D].direct = D
  BY DEF Sound, Compositor

\* What a handler is to leave behind.
Good(w, s) ==
    /\ w \in Windows /\ Placed(w) /\ Sound(s) /\ Fits(w, s)
    /\ s.paused_mask \subseteq Covered(w)

\* A handler that ends with a look at the monitors leaves a good state, and
\* one that then calls restack() does too.
LEMMA CheckGood ==
    ASSUME NEW w \in Windows, Placed(w), NEW s, Sound(s), Fits(w, s), NEW m
    PROVE  /\ Good(w, check_unredirect(w, s))
           /\ Good(w, restack(w, check_unredirect(w, s), m))
  <1>1. Good(w, check_unredirect(w, s))
    BY CheckSound DEF Good
  <1>2. Good(w, restack(w, check_unredirect(w, s), m))
    <2> DEFINE t == check_unredirect(w, s)
    <2>1. Sound(t) BY <1>1 DEF Good
    <2>2. /\ Sound(restack(w, t, m)) /\ restack(w, t, m).paused_mask = t.paused_mask
          /\ restack(w, t, m).direct = t.direct
      BY <2>1, RestackKeeps
    <2> QED BY <1>1, <2>2 DEF Good, Fits
  <1> QED BY <1>1, <1>2

\* The same after an arrange() or restack() before the look.
LEMMA RestackCheckGood ==
    ASSUME NEW w \in Windows, Placed(w), NEW s, Sound(s), Fits(w, s), NEW v, NEW n, NEW m
    PROVE  /\ Good(w, check_unredirect(w, restack(v, s, n)))
           /\ Good(w, restack(w, check_unredirect(w, restack(v, s, n)), m))
  <1> DEFINE t == restack(v, s, n)
  <1>1. Sound(t) /\ Fits(w, t)
    BY RestackKeeps DEF Fits
  <1> QED BY <1>1, CheckGood

-----------------------------------------------------------------------------
\* The handlers.

\* IInv is Good of the two variables.
LEMMA IInvIsGood == (IInv <=> Good(wm, comp)) /\ (IInv' <=> Good(wm', comp'))
  BY DEF IInv, Good

\* A new window, perhaps fullscreen and perhaps asking to be bypassed.
LEMMA ManageStep ==
    ASSUME IInv, NEW c \in Client, NEW m \in Monitor, NEW shown \in BOOLEAN,
           NEW fullscreen \in BOOLEAN, NEW translucent \in BOOLEAN, NEW hint \in BOOLEAN,
           Manage(c, m, shown, fullscreen, translucent, hint)
    PROVE  IInv'
  <1> DEFINE w == [wm EXCEPT
                     !.managed = @ \cup {c}, !.mon[c] = m, !.at[c] = m,
                     !.vis[c] = IF shown THEN m ELSE Nowhere,
                     !.isfullscreen = IF fullscreen THEN @ \cup {c} ELSE @,
                     !.fills = IF fullscreen THEN @ \cup {c} ELSE @,
                     !.translucent = IF translucent THEN @ \cup {c} ELSE @,
                     !.hint = IF hint THEN @ \cup {c} ELSE @]
             r == IF fullscreen THEN defer_fullscreen_bypass(comp, c) ELSE comp
             s == raise_overlay(r)
             t == IF hint THEN bypass_window(w, s, c, TRUE) ELSE s
  <1>1. wm' = w /\ comp' = check_unredirect(w, t) /\ c \notin wm.managed
    BY DEF Manage
  <1>2. /\ w \in Windows /\ w.managed = wm.managed \cup {c}
        /\ w.isfullscreen = IF fullscreen THEN wm.isfullscreen \cup {c} ELSE wm.isfullscreen
        /\ w.fills = IF fullscreen THEN wm.fills \cup {c} ELSE wm.fills
        /\ w.translucent = IF translucent THEN wm.translucent \cup {c} ELSE wm.translucent
        /\ w.hint = IF hint THEN wm.hint \cup {c} ELSE wm.hint
        /\ w.vis = [wm.vis EXCEPT ![c] = IF shown THEN m ELSE Nowhere]
        /\ w.mon = [wm.mon EXCEPT ![c] = m] /\ w.hidden = wm.hidden
    <2>1. wm \in Windows
      BY DEF IInv
    <2>2. w \in Windows
      <3> DEFINE F == IF fullscreen THEN wm.isfullscreen \cup {c} ELSE wm.isfullscreen
                 G == IF fullscreen THEN wm.fills \cup {c} ELSE wm.fills
                 T == IF translucent THEN wm.translucent \cup {c} ELSE wm.translucent
                 H == IF hint THEN wm.hint \cup {c} ELSE wm.hint
                 V == [wm.vis EXCEPT ![c] = IF shown THEN m ELSE Nowhere]
                 M == [wm.mon EXCEPT ![c] = m]
                 A == [wm.at EXCEPT ![c] = m]
      <3>1. /\ F \in SUBSET Client /\ G \in SUBSET Client
            /\ T \in SUBSET Client /\ H \in SUBSET Client
        BY <2>1 DEF Windows
      <3>2. /\ V \in [Client -> Monitor \cup {Nowhere}]
            /\ M \in [Client -> Monitor] /\ A \in [Client -> Monitor]
        BY <2>1 DEF Windows
      <3>3. w = [wm EXCEPT !.managed = wm.managed \cup {c}, !.mon = M, !.at = A, !.vis = V,
                           !.isfullscreen = F, !.fills = G, !.translucent = T, !.hint = H]
        BY <2>1 DEF Windows
      <3> HIDE DEF F, G, T, H, V, M, A, w
      <3> QED BY <2>1, <3>1, <3>2, <3>3 DEF Windows
    <2>3. /\ w.managed = wm.managed \cup {c}
          /\ w.isfullscreen = IF fullscreen THEN wm.isfullscreen \cup {c}
                                             ELSE wm.isfullscreen
          /\ w.fills = IF fullscreen THEN wm.fills \cup {c} ELSE wm.fills
      BY <2>1 DEF Windows
    <2>4. /\ w.translucent = IF translucent THEN wm.translucent \cup {c} ELSE wm.translucent
          /\ w.hint = IF hint THEN wm.hint \cup {c} ELSE wm.hint
      BY <2>1 DEF Windows
    <2>5. /\ w.vis = [wm.vis EXCEPT ![c] = IF shown THEN m ELSE Nowhere]
          /\ w.mon = [wm.mon EXCEPT ![c] = m] /\ w.hidden = wm.hidden
      BY <2>1 DEF Windows
    <2> QED BY <2>2, <2>3, <2>4, <2>5
  <1>3. Placed(w)
    BY <1>2 DEF IInv, Placed, Windows
  <1>4. Sound(r) /\ r.direct = comp.direct
    BY DEF IInv, Sound, Compositor, defer_fullscreen_bypass
  <1>5. Sound(s) /\ s.direct = comp.direct
    BY <1>4, RestackKeeps
  <1>6. Sound(t) /\ Fits(w, t)
    <2>1. Fits(w, s) /\ c \in w.managed
      BY <1>1, <1>2, <1>5 DEF IInv, Fits
    <2>2. CASE hint
      <3>1. t = [s EXCEPT !.direct = s.direct \cup {c}] /\ c \in w.hint
        BY <2>1, <2>2, <1>2 DEF bypass_window
      <3>2. s.direct \cup {c} \in SUBSET Client
        BY <1>5 DEF Sound, Compositor
      <3> HIDE DEF w, s, t
      <3>3. Sound(t) /\ t.direct = s.direct \cup {c}
        BY <3>1, <3>2, <1>5, DirectKeeps
      <3> QED BY <3>1, <3>3, <2>1 DEF Fits
    <2>3. CASE ~hint
      BY <2>3, <2>1, <1>5
    <2> QED BY <2>2, <2>3
  <1>7. Good(w, check_unredirect(w, t))
    <2> HIDE DEF w, t
    <2> QED BY <1>2, <1>3, <1>6, CheckGood
  <1> QED BY <1>1, <1>7, IInvIsGood

\* A window goes: first its record, later restack() and a second look.
LEMMA UnmanageStep ==
    ASSUME IInv, NEW c \in Client, Unmanage(c)
    PROVE  IInv'
  <1> DEFINE w == [wm EXCEPT !.managed = @ \ {c}, !.hidden = @ \ {c},
                             !.isfullscreen = @ \ {c}, !.fills = @ \ {c},
                             !.translucent = @ \ {c}, !.hint = @ \ {c},
                             !.vis[c] = Nowhere, !.mon[c] = 1, !.at[c] = 1]
             r == remove_window(comp, c)
             s == check_unredirect(w, r)
  <1>1. wm' = w /\ comp' = check_unredirect(w, restack(w, s, wm.mon[c]))
    BY DEF Unmanage
  <1>2. 1 \in Monitor
    BY NumMonitorsAssumption DEF Monitor
  <1>3. /\ w \in Windows /\ w.managed = wm.managed \ {c}
        /\ w.isfullscreen = wm.isfullscreen \ {c} /\ w.fills = wm.fills \ {c}
        /\ w.translucent = wm.translucent \ {c}
        /\ w.hint = wm.hint \ {c} /\ w.hidden = wm.hidden \ {c}
        /\ w.vis = [wm.vis EXCEPT ![c] = Nowhere] /\ w.mon = [wm.mon EXCEPT ![c] = 1]
    <2>1. wm \in Windows
      BY DEF IInv
    <2>2. w \in Windows
      <3> DEFINE closed == [wm EXCEPT !.managed = @ \ {c}, !.hidden = @ \ {c},
                                      !.isfullscreen = @ \ {c}, !.fills = @ \ {c},
                                      !.translucent = @ \ {c}, !.hint = @ \ {c}]
      <3>1. closed \in Windows
        BY <2>1 DEF Windows
      <3>2. w = [closed EXCEPT !.vis[c] = Nowhere, !.mon[c] = 1, !.at[c] = 1]
        BY <2>1 DEF Windows
      <3> HIDE DEF closed, w
      <3> QED BY <1>2, <3>1, <3>2 DEF Windows
    <2>3. /\ w.managed = wm.managed \ {c} /\ w.isfullscreen = wm.isfullscreen \ {c}
          /\ w.fills = wm.fills \ {c} /\ w.translucent = wm.translucent \ {c}
      BY <2>1 DEF Windows
    <2>4. w.hint = wm.hint \ {c} /\ w.hidden = wm.hidden \ {c}
      BY <2>1 DEF Windows
    <2>5. w.vis = [wm.vis EXCEPT ![c] = Nowhere] /\ w.mon = [wm.mon EXCEPT ![c] = 1]
      BY <2>1 DEF Windows
    <2> HIDE DEF w
    <2> QED BY <2>2, <2>3, <2>4, <2>5
  <1>4. Placed(w)
    <2>1. Placed(wm) /\ wm.vis \in [Client -> Monitor \cup {Nowhere}]
          /\ wm.mon \in [Client -> Monitor]
      BY DEF IInv, Windows
    <2> HIDE DEF w
    <2>2. /\ w.isfullscreen \cup w.translucent \cup w.hint \cup w.hidden \subseteq w.managed
          /\ w.fills \subseteq w.isfullscreen
      BY <1>3, <2>1 DEF Placed
    <2>3. ASSUME NEW d \in Client, w.vis[d] # Nowhere
          PROVE  d \in w.managed /\ w.vis[d] = w.mon[d]
      BY <1>3, <2>1, <2>3 DEF Placed
    <2> QED BY <2>2, <2>3 DEF Placed
  <1>5. Sound(r) /\ Fits(w, r)
    BY <1>3 DEF IInv, Sound, Compositor, Fits, remove_window
  <1> HIDE DEF w, r
  <1>6. Sound(s) /\ Fits(w, s)
    BY <1>3, <1>5, CheckSound
  <1>7. Good(w, check_unredirect(w, restack(w, s, wm.mon[c])))
    <2> HIDE DEF s
    <2> QED BY <1>3, <1>4, <1>6, RestackCheckGood
  <1> QED BY <1>1, <1>7, IInvIsGood

\* setfullscreen(c, 1) only starts the timer.
LEMMA FullscreenStep ==
    ASSUME IInv, NEW c \in Client, Fullscreen(c)
    PROVE  IInv'
  <1> DEFINE w == [wm EXCEPT !.isfullscreen = @ \cup {c}, !.fills = @ \cup {c},
                             !.at[c] = wm.mon[c]]
             s == defer_fullscreen_bypass(comp, c)
  <1>1. wm' = w /\ comp' = s /\ c \in wm.managed /\ c \notin wm.isfullscreen
    BY DEF Fullscreen
  <1>2. /\ w \in Windows /\ w.managed = wm.managed
        /\ w.isfullscreen = wm.isfullscreen \cup {c} /\ w.fills = wm.fills \cup {c}
        /\ w.translucent = wm.translucent /\ w.hint = wm.hint
        /\ w.vis = wm.vis /\ w.mon = wm.mon /\ w.at = [wm.at EXCEPT ![c] = wm.mon[c]]
        /\ w.hidden = wm.hidden
    BY DEF IInv, Windows
  <1>3. Placed(w)
    BY <1>1, <1>2 DEF IInv, Placed
  <1>4. Sound(s) /\ s.direct = comp.direct /\ s.paused_mask = comp.paused_mask
    BY DEF IInv, Sound, Compositor, defer_fullscreen_bypass
  <1>5. Fits(w, s)
    BY <1>2, <1>4 DEF IInv, Fits
  <1>6. Covered(wm) \subseteq Covered(w)
    BY <1>1, <1>2 DEF Covered, IInv, Windows
  <1>7. Good(w, s)
    BY <1>2, <1>3, <1>4, <1>5, <1>6 DEF Good, IInv
  <1> QED BY <1>1, <1>7, IInvIsGood

\* setfullscreen(c, 0) composites the window before it looks.
LEMMA UnfullscreenStep ==
    ASSUME IInv, NEW c \in Client, NEW m \in Monitor, Unfullscreen(c, m)
    PROVE  IInv'
  <1> DEFINE w == [wm EXCEPT !.isfullscreen = @ \ {c}, !.fills = @ \ {c}, !.at[c] = m]
             r == bypass_window(w, comp, c, FALSE)
             s == raise_overlay(r)
  <1>1. /\ wm' = w /\ comp' = restack(w, check_unredirect(w, s), w.mon[c])
        /\ c \in wm.managed
    BY DEF Unfullscreen, leave_fullscreen
  <1>2. /\ w \in Windows /\ w.managed = wm.managed
        /\ w.isfullscreen = wm.isfullscreen \ {c} /\ w.fills = wm.fills \ {c}
        /\ w.translucent = wm.translucent /\ w.hint = wm.hint
        /\ w.vis = wm.vis /\ w.mon = wm.mon /\ w.hidden = wm.hidden
    BY DEF IInv, Windows
  <1>3. Placed(w)
    BY <1>2 DEF IInv, Placed
  <1> HIDE DEF w
  <1>4. Sound(r) /\ r.direct = comp.direct \ {c}
    <2>1. r = [comp EXCEPT !.direct = comp.direct \ {c}]
      BY <1>1, <1>2 DEF bypass_window
    <2>2. Sound(comp) /\ comp.direct \ {c} \in SUBSET Client
      BY DEF IInv, Sound, Compositor
    <2> HIDE DEF r
    <2> QED BY <2>1, <2>2, DirectKeeps
  <1>5. Sound(s) /\ s.direct = comp.direct \ {c}
    BY <1>4, RestackKeeps
  <1>6. Fits(w, s)
    BY <1>2, <1>5 DEF IInv, Fits
  <1>7. Good(w, restack(w, check_unredirect(w, s), w.mon[c]))
    <2> HIDE DEF s
    <2> QED BY <1>2, <1>3, <1>5, <1>6, CheckGood
  <1> QED BY <1>1, <1>7, IInvIsGood

\* A handler that leaves the flags alone and ends with a look.
LEMMA LooksAgain ==
    ASSUME IInv, NEW w \in Windows, Placed(w),
           w.managed = wm.managed, w.isfullscreen = wm.isfullscreen, w.hint = wm.hint
    PROVE  /\ Sound(comp) /\ Fits(w, comp)
           /\ Good(w, check_unredirect(w, comp))
           /\ \A v, n : Good(w, check_unredirect(w, restack(v, comp, n)))
           /\ \A n : Good(w, restack(w, check_unredirect(w, comp), n))
           /\ \A v, n, m : Good(w, restack(w, check_unredirect(w, restack(v, comp, n)), m))
  <1>1. Sound(comp) /\ Fits(w, comp)
    BY DEF IInv, Fits
  <1>2. \A n : Good(w, restack(w, check_unredirect(w, comp), n))
    BY <1>1, CheckGood
  <1>3. \A v, n, m : /\ Good(w, check_unredirect(w, restack(v, comp, n)))
                     /\ Good(w, restack(w, check_unredirect(w, restack(v, comp, n)), m))
    BY <1>1, RestackCheckGood
  <1> QED BY <1>1, <1>2, <1>3, CheckGood

\* A window that is not fullscreen moves.
LEMMA MoveStep ==
    ASSUME IInv, NEW c \in Client, NEW m \in Monitor, Move(c, m)
    PROVE  IInv'
  <1> DEFINE w == [wm EXCEPT !.at[c] = m]
  <1>1. wm' = w /\ comp' = comp /\ c \notin wm.isfullscreen
    BY DEF Move
  <1>2. /\ w \in Windows /\ w.managed = wm.managed /\ w.isfullscreen = wm.isfullscreen
        /\ w.fills = wm.fills /\ w.translucent = wm.translucent /\ w.hint = wm.hint
        /\ w.vis = wm.vis /\ w.mon = wm.mon /\ w.at = [wm.at EXCEPT ![c] = m]
        /\ w.hidden = wm.hidden
    BY DEF IInv, Windows
  <1>3. Placed(w) /\ Fits(w, comp)
    BY <1>2 DEF IInv, Placed, Fits
  <1>4. Covered(wm) \subseteq Covered(w)
    BY <1>1, <1>2 DEF Covered, IInv, Windows
  <1>5. Good(w, comp)
    BY <1>2, <1>3, <1>4 DEF Good, IInv
  <1> QED BY <1>1, <1>5, IInvIsGood

\* A fullscreen window moves: no handler looks, the mask stays as it was.
LEMMA MoveResizeStep ==
    ASSUME IInv, NEW c \in Client, NEW m \in Monitor, NEW fills \in BOOLEAN,
           MoveResize(c, m, fills)
    PROVE  IInv'
  <1> DEFINE w == [wm EXCEPT !.at[c] = m, !.fills = IF fills THEN @ \cup {c} ELSE @ \ {c}]
  <1>1. wm' = w /\ comp' = comp /\ c \in wm.isfullscreen
    BY DEF MoveResize
  <1>2. /\ w \in Windows /\ w.managed = wm.managed /\ w.isfullscreen = wm.isfullscreen
        /\ w.fills \subseteq wm.fills \cup {c} /\ w.translucent = wm.translucent
        /\ w.hint = wm.hint /\ w.vis = wm.vis /\ w.mon = wm.mon /\ w.hidden = wm.hidden
    BY DEF IInv, Windows
  <1>3. Placed(w) /\ Fits(w, comp) /\ Covered(w) = Covered(wm)
    BY <1>1, <1>2 DEF IInv, Placed, Fits, Covered
  <1>4. Good(w, comp)
    BY <1>2, <1>3 DEF Good, IInv
  <1> QED BY <1>1, <1>4, IInvIsGood

\* The layout raises the overlay, and the windows stay.
LEMMA ArrangeStep ==
    ASSUME IInv, NEW m \in Monitor, Arrange(m)
    PROVE  IInv'
  <1>1. wm' = wm /\ comp' = restack(wm, comp, m)
    BY DEF Arrange
  <1>2. /\ Sound(restack(wm, comp, m)) /\ restack(wm, comp, m).direct = comp.direct
        /\ restack(wm, comp, m).paused_mask = comp.paused_mask
    BY RestackKeeps DEF IInv
  <1>3. Good(wm, restack(wm, comp, m))
    BY <1>2 DEF Good, IInv, Fits
  <1> QED BY <1>1, <1>3, IInvIsGood

\* A monitor shows another tag.
LEMMA ViewStep ==
    ASSUME IInv, NEW m \in Monitor, NEW C \in SUBSET wm.managed, View(m, C)
    PROVE  IInv'
  <1> DEFINE vis == [c \in Client |-> IF c \in C THEN m
                                      ELSE IF wm.vis[c] = m THEN Nowhere ELSE wm.vis[c]]
             mon == [c \in Client |-> IF c \in C THEN m ELSE wm.mon[c]]
             w == [wm EXCEPT !.vis = vis, !.mon = mon]
  <1>1. wm' = w /\ comp' = check_unredirect(w, restack(wm, comp, m))
    BY DEF View
  <1>2. /\ w \in Windows /\ w.managed = wm.managed /\ w.isfullscreen = wm.isfullscreen
        /\ w.fills = wm.fills /\ w.translucent = wm.translucent /\ w.hint = wm.hint
        /\ w.vis = vis /\ w.mon = mon /\ w.hidden = wm.hidden
    BY DEF IInv, Windows
  <1>3. Placed(w)
    BY <1>2 DEF IInv, Placed
  <1> HIDE DEF w
  <1>4. Good(w, check_unredirect(w, restack(wm, comp, m)))
    BY <1>2, <1>3, LooksAgain
  <1> QED BY <1>1, <1>4, IInvIsGood

\* A window is minimised or restored: it keeps its flags and places, and the
\* compositor looks.
LEMMA HideShowStep ==
    ASSUME IInv, NEW c \in Client, Hide(c) \/ Show(c)
    PROVE  IInv'
  <1> DEFINE H == IF c \in wm.hidden THEN wm.hidden \ {c} ELSE wm.hidden \cup {c}
             w == [wm EXCEPT !.hidden = H]
  <1>1. /\ wm' = w /\ c \in wm.managed
        /\ comp' = restack(w, check_unredirect(w, comp), wm.mon[c])
    BY DEF Hide, Show, retag
  <1>2. /\ w \in Windows /\ w.managed = wm.managed /\ w.isfullscreen = wm.isfullscreen
        /\ w.fills = wm.fills /\ w.translucent = wm.translucent /\ w.hint = wm.hint
        /\ w.vis = wm.vis /\ w.mon = wm.mon /\ w.hidden = H
    BY DEF IInv, Windows
  <1>3. Placed(w)
    BY <1>1, <1>2 DEF IInv, Placed
  <1> HIDE DEF w
  <1>4. Good(w, restack(w, check_unredirect(w, comp), wm.mon[c]))
    BY <1>2, <1>3, LooksAgain
  <1> QED BY <1>1, <1>4, IInvIsGood

\* A window goes to another monitor.
LEMMA SendMonStep ==
    ASSUME IInv, NEW c \in Client, NEW m \in Monitor, SendMon(c, m)
    PROVE  IInv'
  <1> DEFINE w == [wm EXCEPT !.mon[c] = m, !.vis[c] = m]
  <1>1. wm' = w /\ comp' = check_unredirect(w, comp) /\ c \in wm.managed
    BY DEF SendMon
  <1>2. /\ w \in Windows /\ w.managed = wm.managed /\ w.isfullscreen = wm.isfullscreen
        /\ w.fills = wm.fills /\ w.translucent = wm.translucent /\ w.hint = wm.hint
        /\ w.vis = [wm.vis EXCEPT ![c] = m] /\ w.mon = [wm.mon EXCEPT ![c] = m]
        /\ w.hidden = wm.hidden
    BY DEF IInv, Windows
  <1>3. Placed(w)
    BY <1>1, <1>2 DEF IInv, Placed, Windows
  <1> HIDE DEF w
  <1>4. Good(w, check_unredirect(w, comp))
    BY <1>2, <1>3, LooksAgain
  <1> QED BY <1>1, <1>4, IInvIsGood

\* A window goes to another tag, which a monitor shows or none.
LEMMA TagStep ==
    ASSUME IInv, NEW c \in Client, NEW m \in Monitor \cup {Nowhere}, Tag(c, m)
    PROVE  IInv'
  <1> DEFINE w == [wm EXCEPT !.vis[c] = m, !.mon[c] = IF m = Nowhere THEN @ ELSE m]
             s == IF m = Nowhere THEN comp ELSE restack(wm, comp, m)
  <1>1. /\ wm' = w /\ c \in wm.managed
        /\ comp' = restack(w, check_unredirect(w, s), wm.mon[c])
    BY DEF Tag, retag
  <1>2. /\ w \in Windows /\ w.managed = wm.managed /\ w.isfullscreen = wm.isfullscreen
        /\ w.fills = wm.fills /\ w.translucent = wm.translucent /\ w.hint = wm.hint
        /\ w.vis = [wm.vis EXCEPT ![c] = m]
        /\ w.mon = [wm.mon EXCEPT ![c] = IF m = Nowhere THEN @ ELSE m]
        /\ w.hidden = wm.hidden
    BY DEF IInv, Windows
  <1>3. Placed(w)
    BY <1>1, <1>2 DEF IInv, Placed, Windows
  <1> HIDE DEF w
  <1>4. Good(w, restack(w, check_unredirect(w, s), wm.mon[c]))
    BY <1>2, <1>3, LooksAgain
  <1> QED BY <1>1, <1>4, IInvIsGood

\* Two monitors exchange what they show.
LEMMA ExchangeStep ==
    ASSUME IInv, NEW m \in Monitor, NEW n \in Monitor, Exchange(m, n)
    PROVE  IInv'
  <1> DEFINE vis == [c \in Client |-> CASE wm.vis[c] = m -> n [] wm.vis[c] = n -> m
                                        [] OTHER -> wm.vis[c]]
             w == [wm EXCEPT !.vis = vis,
                             !.mon = [c \in Client |-> IF wm.vis[c] = n THEN m ELSE @[c]]]
             v == [w EXCEPT !.mon = [c \in Client |-> IF wm.vis[c] = m THEN n ELSE @[c]]]
             s == check_unredirect(w, restack(wm, comp, n))
  <1>1. wm' = v /\ comp' = check_unredirect(v, restack(wm, s, n)) /\ m # n
    BY DEF Exchange
  <1>2. vis \in [Client -> Monitor \cup {Nowhere}]
    BY DEF IInv, Windows
  <1>3. /\ w \in Windows /\ w.managed = wm.managed /\ w.isfullscreen = wm.isfullscreen
        /\ w.fills = wm.fills /\ w.translucent = wm.translucent /\ w.hint = wm.hint /\ w.vis = vis
        /\ w.mon = [c \in Client |-> IF wm.vis[c] = n THEN m ELSE wm.mon[c]]
        /\ w.hidden = wm.hidden
    BY <1>2 DEF IInv, Windows
  <1>4. /\ v \in Windows /\ v.managed = wm.managed /\ v.isfullscreen = wm.isfullscreen
        /\ v.fills = wm.fills /\ v.translucent = wm.translucent /\ v.hint = wm.hint /\ v.vis = vis
        /\ v.mon = [c \in Client |-> IF wm.vis[c] = m THEN n ELSE w.mon[c]]
        /\ v.hidden = wm.hidden
    BY <1>3 DEF Windows
  <1>5. Placed(v)
    <2>1. m # Nowhere /\ n # Nowhere
      BY DEF Monitor, Nowhere
    <2>2. ASSUME NEW c \in Client, vis[c] # Nowhere
          PROVE  c \in wm.managed /\ vis[c] = v.mon[c]
      <3>1. wm.vis[c] # Nowhere => c \in wm.managed /\ wm.vis[c] = wm.mon[c]
        BY DEF IInv, Placed
      <3>2. CASE wm.vis[c] = m
        BY <2>1, <3>1, <3>2, <1>4
      <3>3. CASE wm.vis[c] = n
        BY <1>1, <2>1, <3>1, <3>3, <1>3, <1>4
      <3>4. CASE wm.vis[c] # m /\ wm.vis[c] # n
        BY <2>2, <3>1, <3>4, <1>3, <1>4
      <3> QED BY <3>2, <3>3, <3>4
    <2> HIDE DEF v, w, vis
    <2>3. /\ v.isfullscreen \cup v.translucent \cup v.hint \cup v.hidden \subseteq v.managed
          /\ v.fills \subseteq v.isfullscreen
      BY <1>4 DEF IInv, Placed
    <2> QED BY <2>2, <2>3, <1>4 DEF Placed
  <1>6. Sound(restack(wm, comp, n)) /\ Fits(w, restack(wm, comp, n))
    BY <1>3, RestackKeeps DEF IInv, Fits
  <1>7. Sound(s) /\ Fits(w, s)
    <2> HIDE DEF w
    <2> QED BY <1>3, <1>6, CheckSound
  <1>8. Fits(v, s)
    BY <1>3, <1>4, <1>7 DEF Fits
  <1>9. Good(v, check_unredirect(v, restack(wm, s, n)))
    <2> HIDE DEF v, s
    <2> QED BY <1>4, <1>5, <1>7, <1>8, RestackCheckGood
  <1> QED BY <1>1, <1>9, IInvIsGood

\* focus(), alone or before restack().
LEMMA FocusStep ==
    ASSUME IInv, Focus \/ \E m \in Monitor : FocusRestack(m)
    PROVE  IInv'
  <1>1. wm \in Windows /\ Placed(wm)
    BY DEF IInv
  <1>2. CASE Focus
    BY <1>1, <1>2, LooksAgain, IInvIsGood DEF Focus
  <1>3. CASE \E m \in Monitor : FocusRestack(m)
    BY <1>1, <1>3, LooksAgain, IInvIsGood DEF FocusRestack, retag
  <1> QED BY <1>2, <1>3

\* A window becomes translucent or opaque: no handler looks.
LEMMA SetOpacityStep ==
    ASSUME IInv, NEW c \in Client, SetOpacity(c)
    PROVE  IInv'
  <1> DEFINE w == [wm EXCEPT !.translucent = IF c \in @ THEN @ \ {c} ELSE @ \cup {c}]
  <1>1. wm' = w /\ comp' = comp /\ c \in wm.managed
    BY DEF SetOpacity
  <1>2. /\ w \in Windows /\ w.managed = wm.managed /\ w.isfullscreen = wm.isfullscreen
        /\ w.fills = wm.fills /\ w.translucent \subseteq wm.translucent \cup {c} /\ w.hint = wm.hint
        /\ w.vis = wm.vis /\ w.mon = wm.mon /\ w.at = wm.at
        /\ w.hidden = wm.hidden
    BY DEF IInv, Windows
  <1>3. Placed(w) /\ Fits(w, comp) /\ Covered(w) = Covered(wm)
    BY <1>1, <1>2 DEF IInv, Placed, Fits, Covered
  <1>4. Good(w, comp)
    BY <1>2, <1>3 DEF Good, IInv
  <1> QED BY <1>1, <1>4, IInvIsGood

\* The hint and the record change together.
LEMMA SetHintStep ==
    ASSUME IInv, NEW c \in Client, SetHint(c)
    PROVE  IInv'
  <1> DEFINE w == [wm EXCEPT !.hint = IF c \in @ THEN @ \ {c} ELSE @ \cup {c}]
             D == IF c \in wm.hint THEN comp.direct \ {c} ELSE comp.direct \cup {c}
             s == [comp EXCEPT !.direct = D]
  <1>1. wm' = w /\ comp' = s /\ c \in wm.managed
    BY DEF SetHint, bypass_window
  <1>2. /\ w \in Windows /\ w.managed = wm.managed /\ w.isfullscreen = wm.isfullscreen
        /\ w.hint = IF c \in wm.hint THEN wm.hint \ {c} ELSE wm.hint \cup {c}
        /\ w.fills = wm.fills /\ w.translucent = wm.translucent
        /\ w.vis = wm.vis /\ w.mon = wm.mon /\ w.at = wm.at
        /\ w.hidden = wm.hidden
    BY DEF IInv, Windows
  <1>3. Placed(w) /\ Covered(w) = Covered(wm)
    BY <1>1, <1>2 DEF IInv, Placed, Covered
  <1>4. Sound(comp) /\ D \in SUBSET Client
    BY DEF IInv, Sound, Compositor
  <1>5. Sound(s) /\ s.direct = D /\ s.paused_mask = comp.paused_mask
    BY <1>4, DirectKeeps
  <1>6. Fits(w, s)
    BY <1>1, <1>2, <1>5 DEF IInv, Fits
  <1>7. Good(w, s)
    BY <1>2, <1>3, <1>5, <1>6 DEF Good, IInv
  <1> QED BY <1>1, <1>7, IInvIsGood

\* The bypass timer only bypasses a window that is still fullscreen.
LEMMA BypassTimerStep ==
    ASSUME IInv, BypassTimer
    PROVE  IInv'
  <1> DEFINE c == comp.pending
             t == [comp EXCEPT !.pending = NoClient]
             D == comp.direct \cup {c}
             s == [t EXCEPT !.direct = D]
  <1>1. wm' = wm /\ comp' = bypass_cb(wm, comp, c)
    BY DEF BypassTimer
  <1>2. wm \in Windows /\ Placed(wm)
    BY DEF IInv
  <1>3. Sound(t) /\ t.direct = comp.direct /\ t.paused_mask = comp.paused_mask
    BY DEF IInv, Sound, Compositor
  <1>4. CASE c \notin wm.managed \cap wm.isfullscreen
    <2>1. comp' = t
      BY <1>1, <1>4 DEF bypass_cb
    <2>2. Good(wm, t)
      BY <1>2, <1>3 DEF Good, IInv, Fits
    <2> QED BY <1>1, <2>1, <2>2, IInvIsGood
  <1>5. CASE c \in wm.managed \cap wm.isfullscreen
    <2>1. comp' = check_unredirect(wm, s)
      BY <1>1, <1>3, <1>5 DEF bypass_cb, bypass_window
    <2>2. D \in SUBSET Client
      BY <1>5 DEF IInv, Windows, Sound, Compositor
    <2>3. Sound(s) /\ s.direct = D
      <3> HIDE DEF t, D
      <3> QED BY <1>3, <2>2, DirectKeeps
    <2>4. Fits(wm, s)
      BY <1>5, <2>3 DEF IInv, Fits
    <2>5. Good(wm, check_unredirect(wm, s))
      <3> HIDE DEF s
      <3> QED BY <1>2, <2>3, <2>4, CheckGood
    <2> QED BY <1>1, <2>1, <2>5, IInvIsGood
  <1> QED BY <1>4, <1>5

\* The watchdog stops when no monitor is bypassed, or starts again with the check.
LEMMA WatchdogStep ==
    ASSUME IInv, Watchdog
    PROVE  IInv'
  <1> DEFINE t == [comp EXCEPT !.watchdog = FALSE]
  <1>1. wm' = wm /\ comp' = watchdog_cb(wm, comp)
    BY DEF Watchdog
  <1>2. wm \in Windows /\ Placed(wm)
    BY DEF IInv
  <1>3. CASE comp.paused_mask = {}
    <2>1. comp' = t
      BY <1>1, <1>3 DEF watchdog_cb
    <2>2. Sound(t) /\ t.direct = comp.direct /\ t.paused_mask = comp.paused_mask
      BY <1>3 DEF IInv, Sound, Compositor
    <2>3. Good(wm, t)
      BY <1>2, <2>2 DEF Good, IInv, Fits
    <2> QED BY <1>1, <2>1, <2>3, IInvIsGood
  <1>4. CASE comp.paused_mask # {} /\ Justified(wm) # comp.paused_mask
    <2>1. comp' = check_unredirect(wm, t)
      BY <1>1, <1>4 DEF watchdog_cb
    <2>2. t \in Compositor /\ t.direct = comp.direct /\ t.paused_mask = comp.paused_mask
      BY DEF IInv, Sound, Compositor
    <2>3. Fits(wm, t)
      BY <2>2 DEF IInv, Fits
    <2>4. Good(wm, check_unredirect(wm, t))
      <3> HIDE DEF t
      <3> QED BY <1>2, <1>4, <2>2, <2>3, CheckChanges, JustifiedCovered DEF Good
    <2> QED BY <1>1, <2>1, <2>4, IInvIsGood
  <1>5. CASE comp.paused_mask # {} /\ Justified(wm) = comp.paused_mask
    BY <1>1, <1>5 DEF watchdog_cb, IInv
  <1> QED BY <1>3, <1>4, <1>5

-----------------------------------------------------------------------------
\* The invariant, and what follows from it.

\* When awm starts nothing is bypassed, and the invariant holds.
LEMMA InitInv == Init => IInv
  <1> SUFFICES ASSUME Init PROVE IInv
    OBVIOUS
  <1>1. 1 \in Monitor
    BY NumMonitorsAssumption DEF Monitor
  <1>2. wm \in Windows /\ Placed(wm)
    BY <1>1 DEF Init, Windows, Placed
  <1>3. Sound(comp) /\ Fits(wm, comp) /\ comp.paused_mask \subseteq Covered(wm)
    BY DEF Init, Sound, Compositor, Fits
  <1> QED BY <1>2, <1>3 DEF IInv

\* One step per handler and timer.
LEMMA NextInv == IInv /\ [Next]_vars => IInv'
  <1> SUFFICES ASSUME IInv, [Next]_vars PROVE IInv'
    OBVIOUS
  <1>1. CASE Programs
    <2>1. CASE \E c \in Client, m \in Monitor, shown, fullscreen, translucent, hint \in BOOLEAN :
                 Manage(c, m, shown, fullscreen, translucent, hint)
      BY <2>1, ManageStep
    <2>2. CASE \E c \in Client : Unmanage(c) \/ Fullscreen(c) \/ SetOpacity(c) \/ SetHint(c)
      BY <2>2, UnmanageStep, FullscreenStep, SetOpacityStep, SetHintStep
    <2>3. CASE \E c \in Client, m \in Monitor : Unfullscreen(c, m) \/ Move(c, m)
      BY <2>3, UnfullscreenStep, MoveStep
    <2>4. CASE \E c \in Client, m \in Monitor, fills \in BOOLEAN : MoveResize(c, m, fills)
      BY <2>4, MoveResizeStep
    <2> QED BY <1>1, <2>1, <2>2, <2>3, <2>4 DEF Programs
  <1>2. CASE User
    <2>1. CASE \E m \in Monitor : \E C \in SUBSET wm.managed : View(m, C)
      BY <2>1, ViewStep
    <2>2. CASE \E m, n \in Monitor : Exchange(m, n)
      BY <2>2, ExchangeStep
    <2>3. CASE \E c \in Client, m \in Monitor : SendMon(c, m)
      BY <2>3, SendMonStep
    <2>4. CASE \E c \in Client, m \in Monitor \cup {Nowhere} : Tag(c, m)
      BY <2>4, TagStep
    <2>5. CASE Focus \/ \E m \in Monitor : FocusRestack(m)
      BY <2>5, FocusStep
    <2>6. CASE \E m \in Monitor : Arrange(m)
      BY <2>6, ArrangeStep
    <2>7. CASE \E c \in Client : Hide(c) \/ Show(c)
      BY <2>7, HideShowStep
    <2> QED BY <1>2, <2>1, <2>2, <2>3, <2>4, <2>5, <2>6, <2>7 DEF User
  <1>3. CASE BypassTimer
    BY <1>3, BypassTimerStep
  <1>4. CASE Watchdog
    BY <1>4, WatchdogStep
  <1>5. CASE UNCHANGED vars
    BY <1>5 DEF vars, IInv
  <1> QED BY <1>1, <1>2, <1>3, <1>4, <1>5 DEF Next

\* The inductive invariant holds in every reachable state.
LEMMA InductiveInvariant == Spec => []IInv
  BY InitInv, NextInv, PTL DEF Spec

\* Both records keep their types; what the compositor records, and every flag
\* and place, belongs to a managed window.
THEOREM TypeCorrect == Spec => []TypeOK
  <1>1. IInv => TypeOK
    BY DEF IInv, TypeOK, Placed, Sound, Fits
  <1> QED BY <1>1, InductiveInvariant, PTL

\* Whatever the order of handlers and timers, a window that is neither
\* fullscreen nor asks for it is never left out of compositing.
THEOREM WindowedAlwaysComposited == Spec => []WindowedIsComposited
  <1>1. IInv => WindowedIsComposited
    BY DEF IInv, WindowedIsComposited, Fits
  <1> QED BY <1>1, InductiveInvariant, PTL

\* A bypass never loses the watchdog that can end it.
THEOREM WatchdogAlwaysRuns == Spec => []WatchdogRuns
  <1>1. IInv => WatchdogRuns
    BY DEF IInv, WatchdogRuns, Sound
  <1> QED BY <1>1, InductiveInvariant, PTL

\* Unless every monitor is bypassed, the overlay is open exactly over the
\* bypassed ones: no monitor keeps a hole it no longer needs.
THEOREM HolesAlwaysBypassed == Spec => []HolesAreBypassed
  <1>1. IInv => HolesAreBypassed
    BY DEF IInv, HolesAreBypassed, Sound
  <1> QED BY <1>1, InductiveInvariant, PTL

\* Watchdog and holes are those of the bypassed monitors, whatever was bypassed
\* before.
THEOREM PauseAlwaysAccounted == Spec => []PauseAccounted
  <1>1. WatchdogRuns /\ HolesAreBypassed => PauseAccounted
    BY DEF PauseAccounted
  <1> QED BY <1>1, WatchdogAlwaysRuns, HolesAlwaysBypassed, PTL

\* Every handler after which a monitor has no fullscreen window on the tag it
\* shows also ends its bypass, whatever was minimised and restored meanwhile.
THEOREM BypassAlwaysCovered == Spec => []BypassIsCovered
  <1>1. Covered(wm) \subseteq Displayed(wm) \cup Minimised(wm)
    BY DEF Covered, Displayed, Minimised
  <1>2. IInv => BypassIsCovered
    BY <1>1 DEF IInv, BypassIsCovered
  <1> QED BY <1>2, InductiveInvariant, PTL
=============================================================================
