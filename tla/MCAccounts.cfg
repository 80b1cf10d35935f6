\* No deadlock: a page is loaded again, and Stripe repeats what it has to say.
\* Two requests of the browser and two calls to Stripe may overlap.
SPECIFICATION Spec
CONSTANTS
    Requests = {"r1", "r2"}
    Presets = {"salt", "ember"}
    NoPreset = "none"
    MaxMishaps = 2
    Calls = {"c1", "c2"}
    Last = 2
    MaxPeriod = 2
    MaxEvents = 2
    MaxFailures = 1
INVARIANTS TypeOK NothingTwice
PROPERTIES EveryIntentDone EventsLand
