SPECIFICATION Spec
CONSTANTS
    Cookies = {1, 2, 3}
    Torches = {"none", "simple", "qcom", "qcom-switch", "camera-hal"}
    MaxProviders = 2
    IsLomiri = TRUE
INVARIANTS ScreenMaySleep OffMeansDark SwitchesAreCurrent
PROPERTIES LitOnlyByTurningOn
