SPECIFICATION Spec
CONSTANTS
  Colors <- MCColors
  Rates = {"slow", "fast"}
  Attentions = {3, 7}
  g_haveTrackballLight = TRUE
INVARIANTS LightsConsistent
PROPERTIES NotificationTakesLed
